---- MODULE Spec2Model ----
(***************************************************************************)
(* Model of the SecureVault password manager: the file-backed server       *)
(* (src/unnamed/part_000) and the PostgreSQL-backed serverless handler     *)
(* (src/api/index.js).  One state machine covers both: `backend` is fixed  *)
(* by Init and every handler has a file and an sql branch.                 *)
(*                                                                         *)
(* A request with a body (POST, PUT) is in flight between its arrival and  *)
(* the `end` event of its body; GET and DELETE handlers of the file        *)
(* backend run without any await.  The sql register handler awaits twice   *)
(* (SELECT, then INSERT) and so has one more step.                         *)
(***************************************************************************)
EXTENDS Integers, Sequences, FiniteSets, TLC

VARIABLES
    backend,    \* "file" (part_000) or "sql" (api/index.js)
    now,        \* Date.now() / CURRENT_TIMESTAMP, in milliseconds
    users,      \* the stored user records
    vault,      \* file backend: username -> the entries of data/vault/<username>.json
    rows,       \* sql backend: the rows of table password_entries
    sessions,   \* the sessions Map: token -> [username, expires]
    inflight,   \* client -> the request whose handler is suspended at an await
    resp,       \* the last response sent
    nextToken,  \* the next fresh token
    nextId,     \* the next fresh entry id
    regOk,      \* history: username -> the passwords of its register requests answered 201
    issued,     \* history: token -> [username, at] of the login that issued it
    creator,    \* history: entry id -> the username its POST was authenticated as
    raced,      \* history: a write completed while another write of the same owner,
                \* to another entry, was in flight
    storage     \* sql backend: "ok", "nopool" (no connection string, pool is null)
                \* or "failing" (queries are rejected)

vars == <<backend, now, users, vault, rows, sessions, inflight, resp,
          nextToken, nextId, regOk, issued, creator, raced, storage>>

----------------------------------------------------------------------------
(* Bounds of the model *)
MaxTokens == 2
MaxEntries == 2
MaxTime == 2

(* Program constants *)
TOKEN_TTL_MS == 24 * 60 * 60 * 1000
ITERATIONS == 120000
MIN_PASSWORD_LEN == 6
MIN_USER_LEN == 3
MAX_USER_LEN == 32

----------------------------------------------------------------------------
(* Values *)
undefined == "<undefined>"

alice == <<"a", "l", "i", "c", "e">>
bob == <<"b", "o", "b">>
carol == <<"c", "a", "r", "o", "l">>
shortName == <<"a", "b">>
badName == <<"a", " ", "b">>
longName == [i \in 1..(MAX_USER_LEN + 1) |-> "a"]

Clients == {"c1", "c2"}
NoReq == [op |-> "none"]
NoResp == [op |-> "none", client |-> "c1", status |-> 0, error |-> ""]

UserChars == {"a", "b", "c", "e", "i", "l", "o", "r", ".", "_", "-"}

NoUser == <<>>

(* isValidUser: a string of 3..32 characters of [a-zA-Z0-9._-] *)
isValidUser(u) ==
    /\ Len(u) >= MIN_USER_LEN
    /\ Len(u) <= MAX_USER_LEN
    /\ \A i \in 1..Len(u) : u[i] \in UserChars

(* A validation that accepts every password *)
isValidPasswordAny(p) == TRUE

(* isValidPassword: a string of at least 6 characters *)
isValidPassword(p) == p # undefined /\ Len(p) >= MIN_PASSWORD_LEN

(* hashPassword: PBKDF2-HMAC-SHA256 of the password under salt and         *)
(* iteration count, as a symbolic digest (deterministic, collision free).  *)
hashPassword(password, salt, iterations) ==
    <<"pbkdf2-sha256", password, salt, iterations>>

(* pbkdf2Sync throws a TypeError when the password is not a string. *)
hashThrows(password) == password = undefined

(* A verification that accepts every password *)
verifyPasswordAny(password, salt, iterations, expectedHex) == TRUE

(* A verification that hashes without the stored salt *)
verifyPasswordUnsalted(password, salt, iterations, expectedHex) ==
    hashPassword(password, "", iterations) = expectedHex

verifyPassword(password, salt, iterations, expectedHex) ==
    hashPassword(password, salt, iterations) = expectedHex

(* A storage that never fails *)
storageDownNever == FALSE

(* if (!pool), or a rejected pool.query: the sql handler cannot reach its  *)
(* database.                                                               *)
storageDown == backend = "sql" /\ storage # "ok"

(* The error of the 500 answer: the pool check's, or the catch block's *)
StorageError ==
    IF storage = "nopool" THEN "Database connection not available" ELSE "Database error"

(* JavaScript truthiness of a string-or-undefined value *)
Truthy(v) == v # undefined /\ v # ""

----------------------------------------------------------------------------
(* Responses.  resp holds the last response sent: the handler, the client, *)
(* the HTTP status, the error string of the JSON body, the request's       *)
(* inputs and the rest of the body.                                        *)
Reply(op, c, status, error, req, out) ==
    [op |-> op, client |-> c, status |-> status, error |-> error,
     req |-> req, out |-> out]

(* The body of an error response, and {ok: true} *)
NoOut == [ok |-> FALSE]
OkOut == [ok |-> TRUE]

Busy(c) == inflight[c].op # "none"
(* A handler that never lets go of its request *)
DoneNever(c) == inflight

Done(c) == [inflight EXCEPT ![c] = NoReq]

----------------------------------------------------------------------------
(* User store.  users is the set of stored user records: the keys of       *)
(* users.json with their values, or the rows of table users.               *)
UserRows(u) == {r \in users : r.username = u}

(* A lookup that never finds the user *)
userExistsNever(u) == FALSE

userExists(u) == UserRows(u) # {}

NewUser(u, p, salt) ==
    [username |-> u, salt |-> salt,
     hash |-> hashPassword(p, salt, ITERATIONS),
     iterations |-> ITERATIONS, createdAt |-> now]

(* users[username] = {...}; writeFileSync(USERS_FILE, users): an assignment *)
(* to the key of a JSON object replaces what the key held.                  *)
writeUser(rec) == {r \in users : r.username # rec.username} \cup {rec}

(* A users table without its primary key *)
insertUserFailsNoKey(rec) == FALSE

(* INSERT INTO users: the PRIMARY KEY on username rejects a second row. *)
insertUserFails(rec) == \E r \in users : r.username = rec.username

insertUser(rec) == users \cup {rec}

(* ensureUserVault: creates the user's vault file, holding [], if absent *)
ensureUserVault(v, u) ==
    IF u \in DOMAIN v THEN v ELSE [x \in DOMAIN v \cup {u} |-> IF x = u THEN <<>> ELSE v[x]]

----------------------------------------------------------------------------
(* Sessions.  sessions maps a token to [username, expires]. *)

(* getAuth: the session of a bearer token, unless it is missing, unknown   *)
(* or expired.  Token 0 stands for a request without a bearer token.       *)
sessionExpired(tok) == sessions[tok].expires < now

(* A resolution that never looks at the expiry *)
authOkUnexpiring(tok) == tok # 0 /\ tok \in DOMAIN sessions

authOk(tok) ==
    /\ tok # 0
    /\ tok \in DOMAIN sessions
    /\ ~sessionExpired(tok)

authName(tok) == sessions[tok].username

(* getAuth deletes the session it finds expired. *)
sessionsAfterAuth(tok) ==
    IF tok # 0 /\ tok \in DOMAIN sessions /\ sessionExpired(tok)
    THEN [t \in DOMAIN sessions \ {tok} |-> sessions[t]]
    ELSE sessions

(* A login that stores its session without the username *)
issueSessionUnnamed(tok, u) ==
    [t \in DOMAIN sessions \cup {tok} |->
        IF t = tok THEN [username |-> NoUser, expires |-> now + TOKEN_TTL_MS]
        ELSE sessions[t]]

(* A login that ends every other session *)
issueSessionOnly(tok, u) ==
    [t \in {tok} |-> [username |-> u, expires |-> now + TOKEN_TTL_MS]]

(* sessions.set(token, {username, expires: Date.now() + TOKEN_TTL_MS}) *)
issueSession(tok, u) ==
    [t \in DOMAIN sessions \cup {tok} |->
        IF t = tok THEN [username |-> u, expires |-> now + TOKEN_TTL_MS]
        ELSE sessions[t]]

----------------------------------------------------------------------------
InitState ==
    /\ backend \in {"file", "sql"}
    /\ now = 0
    /\ users = {}
    /\ vault = <<>>
    /\ rows = {}
    /\ sessions = <<>>
    /\ inflight = [c \in Clients |-> NoReq]
    /\ resp = NoResp
    /\ nextToken = 1
    /\ nextId = 1
    /\ regOk = <<>>
    /\ issued = <<>>
    /\ creator = <<>>
    /\ raced = FALSE

(* The server with its storage available *)
Init == InitState /\ storage = "ok"

(* The sql handler, started with or without a connection string *)
InitStorage == InitState /\ backend = "sql" /\ storage \in {"ok", "nopool"}

(* Queries start to fail, and work again *)
Outage ==
    /\ backend = "sql" /\ storage = "ok"
    /\ storage' = "failing"
    /\ UNCHANGED <<backend, now, users, vault, rows, sessions, inflight, resp,
                   nextToken, nextId, regOk, issued, creator, raced>>

Recover ==
    /\ backend = "sql" /\ storage = "failing"
    /\ storage' = "ok"
    /\ UNCHANGED <<backend, now, users, vault, rows, sessions, inflight, resp,
                   nextToken, nextId, regOk, issued, creator, raced>>

(* The clock moves forward to t. *)
Tick(t) ==
    /\ t > now
    /\ now' = t
    /\ UNCHANGED <<backend, storage, users, vault, rows, sessions, inflight, resp,
                   nextToken, nextId, regOk, issued, creator, raced>>

(* History of the register requests answered 201 *)
RegCount(u) == IF u \in DOMAIN regOk THEN Len(regOk[u]) ELSE 0

countOk(u, p) ==
    [x \in DOMAIN regOk \cup {u} |->
        IF x = u THEN (IF u \in DOMAIN regOk THEN Append(regOk[u], p) ELSE <<p>>)
        ELSE regOk[x]]

(* History of the entries' creation *)
created(id, u) == [x \in DOMAIN creator \cup {id} |-> IF x = id THEN u ELSE creator[x]]

(* The target of a write in flight: the id it names, 0 for a new entry *)
target(r) == IF r.op = "updateEntry" THEN r.args.id ELSE 0

(* Another client's write of the same owner, to another entry, is in flight *)
overlaps(c) ==
    \E d \in Clients \ {c} :
        /\ inflight[d].op \in {"addEntry", "updateEntry"}
        /\ inflight[d].auth = inflight[c].auth
        /\ (target(inflight[d]) # target(inflight[c]) \/ target(inflight[c]) = 0)

(* A request of client c is answered in this step. *)
Responds(c) == inflight[c].op # "none" /\ inflight'[c].op = "none"

----------------------------------------------------------------------------
(* POST /api/register *)

(* The request arrives; the handler awaits the end of its body. *)
BeginRegister(c, u, p) ==
    /\ ~Busy(c)
    /\ inflight' = [inflight EXCEPT ![c] =
          [op |-> "register", pc |-> "body", username |-> u, password |-> p]]
    /\ UNCHANGED <<backend, storage, now, users, vault, rows, sessions, resp,
                   nextToken, nextId, regOk, issued, creator, raced>>

(* File backend: the body has ended; the rest of the handler is synchronous. *)
FileRegisterBody(c, salt) ==
    LET r == inflight[c]
        req == [username |-> r.username, password |-> r.password] IN
    /\ backend = "file"
    /\ r.op = "register" /\ r.pc = "body"
    /\ inflight' = Done(c)
    /\ IF ~isValidUser(r.username) \/ ~isValidPassword(r.password)
       THEN /\ resp' = Reply("register", c, 400, "Invalid username or password", req, NoOut)
            /\ UNCHANGED <<users, vault, regOk>>
       ELSE IF userExists(r.username)
       THEN /\ resp' = Reply("register", c, 409, "User exists", req, NoOut)
            /\ UNCHANGED <<users, vault, regOk>>
       ELSE /\ users' = writeUser(NewUser(r.username, r.password, salt))
            /\ vault' = ensureUserVault(vault, r.username)
            /\ regOk' = countOk(r.username, r.password)
            /\ resp' = Reply("register", c, 201, "", req, OkOut)
    /\ UNCHANGED <<backend, storage, now, rows, sessions, nextToken, nextId, issued, creator, raced>>

(* Sql backend: the body has ended; validation, then SELECT 1 FROM users. *)
SqlRegisterSelect(c, salt) ==
    LET r == inflight[c]
        req == [username |-> r.username, password |-> r.password] IN
    /\ backend = "sql"
    /\ r.op = "register" /\ r.pc = "body"
    /\ IF ~isValidUser(r.username) \/ ~isValidPassword(r.password)
       THEN /\ resp' = Reply("register", c, 400, "Invalid username or password", req, NoOut)
            /\ inflight' = Done(c)
       ELSE IF storageDown
       THEN /\ resp' = Reply("register", c, 500, StorageError, req, NoOut)
            /\ inflight' = Done(c)
       ELSE IF userExists(r.username)
       THEN /\ resp' = Reply("register", c, 409, "User exists", req, NoOut)
            /\ inflight' = Done(c)
       ELSE /\ inflight' = [inflight EXCEPT ![c] =
                  [op |-> "register", pc |-> "insert", username |-> r.username,
                   password |-> r.password, salt |-> salt]]
            /\ UNCHANGED resp
    /\ UNCHANGED <<backend, storage, now, users, vault, rows, sessions,
                   nextToken, nextId, regOk, issued, creator, raced>>

(* Sql backend: INSERT INTO users executes; a rejected insert is caught. *)
SqlRegisterInsert(c) ==
    LET r == inflight[c]
        req == [username |-> r.username, password |-> r.password]
        rec == NewUser(r.username, r.password, r.salt) IN
    /\ backend = "sql"
    /\ r.op = "register" /\ r.pc = "insert"
    /\ inflight' = Done(c)
    /\ IF storageDown \/ insertUserFails(rec)
       THEN /\ resp' = Reply("register", c, 500, "Database error", req, NoOut)
            /\ UNCHANGED <<users, regOk>>
       ELSE /\ users' = insertUser(rec)
            /\ regOk' = countOk(r.username, r.password)
            /\ resp' = Reply("register", c, 201, "", req, OkOut)
    /\ UNCHANGED <<backend, storage, now, vault, rows, sessions, nextToken, nextId, issued, creator, raced>>

----------------------------------------------------------------------------
(* POST /api/login *)

BeginLogin(c, u, p) ==
    /\ ~Busy(c)
    /\ inflight' = [inflight EXCEPT ![c] =
          [op |-> "login", pc |-> "body", username |-> u, password |-> p]]
    /\ UNCHANGED <<backend, storage, now, users, vault, rows, sessions, resp,
                   nextToken, nextId, regOk, issued, creator, raced>>

(* The error a throw inside the handler is answered with: the file server  *)
(* has one outer catch, the sql login its own.                             *)
ThrowError == IF backend = "file" THEN "Server error" ELSE "Database error"

(* The body has ended: look the user up, verify, issue a session.  The sql *)
(* handler awaits its SELECT here; user records never change, so the read  *)
(* and the continuation are one step.                                      *)
LoginBody(c) ==
    LET r == inflight[c]
        req == [username |-> r.username, password |-> r.password] IN
    /\ r.op = "login" /\ r.pc = "body"
    /\ nextToken <= MaxTokens \/ storageDown
          \/ ~userExists(r.username) \/ hashThrows(r.password)
          \/ \A urec \in UserRows(r.username) :
                ~verifyPassword(r.password, urec.salt, urec.iterations, urec.hash)
    /\ inflight' = Done(c)
    /\ IF storageDown
       THEN /\ resp' = Reply("login", c, 500, StorageError, req, NoOut)
            /\ UNCHANGED <<sessions, nextToken, issued>>
       ELSE IF ~userExists(r.username)
       THEN /\ resp' = Reply("login", c, 401, "Invalid credentials", req, NoOut)
            /\ UNCHANGED <<sessions, nextToken, issued>>
       ELSE \E urec \in UserRows(r.username) :
            IF hashThrows(r.password)
            THEN /\ resp' = Reply("login", c, 500, ThrowError, req, NoOut)
                 /\ UNCHANGED <<sessions, nextToken, issued>>
            ELSE IF ~verifyPassword(r.password, urec.salt, urec.iterations, urec.hash)
            THEN /\ resp' = Reply("login", c, 401, "Invalid credentials", req, NoOut)
                 /\ UNCHANGED <<sessions, nextToken, issued>>
            ELSE /\ sessions' = issueSession(nextToken, r.username)
                 /\ nextToken' = nextToken + 1
                 /\ issued' = [t \in DOMAIN issued \cup {nextToken} |->
                        IF t = nextToken THEN [username |-> r.username, at |-> now]
                        ELSE issued[t]]
                 /\ resp' = Reply("login", c, 200, "", req,
                                  [token |-> nextToken, username |-> r.username])
    /\ UNCHANGED <<backend, storage, now, users, vault, rows, nextId, regOk, creator, raced>>

----------------------------------------------------------------------------
(* GET /api/me: resolves the bearer token *)
Me(c, tok) ==
    /\ ~Busy(c)
    /\ sessions' = sessionsAfterAuth(tok)
    /\ resp' = IF authOk(tok)
               THEN Reply("me", c, 200, "", [token |-> tok], [username |-> authName(tok)])
               ELSE Reply("me", c, 401, "Unauthorized", [token |-> tok], NoOut)
    /\ UNCHANGED <<backend, storage, now, users, vault, rows, inflight,
                   nextToken, nextId, regOk, issued, creator, raced>>

----------------------------------------------------------------------------
(* Vault entries.  An entry is a record of EntryFields; a field the JSON   *)
(* object does not hold is undefined, a NULL column is null.               *)
null == "<null>"

Has(b, f) == f \in DOMAIN b

(* Destructuring of a body: a missing key reads as undefined *)
Str(b, f) == IF f \in DOMAIN b THEN b[f] ELSE undefined

(* owner || auth.username *)
ownerOr(b, auth) == IF Has(b, "owner") /\ b.owner # NoUser THEN b.owner ELSE auth

(* !siteUrl || !username || !passwordEncrypted *)
missingFields(b) ==
    \/ ~Truthy(Str(b, "url"))
    \/ ~Truthy(Str(b, "username"))
    \/ ~Truthy(Str(b, "passwordEncrypted"))

(* The entry POST /api/entries of the file backend builds *)
fileNewEntry(auth, b, id) ==
    [id |-> id,
     url |-> Str(b, "url"),
     username |-> Str(b, "username"),
     owner |-> ownerOr(b, auth),
     tags |-> IF Has(b, "tags") THEN b.tags ELSE <<>>,
     note |-> Str(b, "note"),
     passwordEncrypted |-> Str(b, "passwordEncrypted"),
     faviconUrl |-> Str(b, "faviconUrl"),
     category |-> undefined,
     createdAt |-> now,
     updatedAt |-> now]

(* undefined query parameters are sent as NULL *)
toSql(v) == IF v = undefined THEN null ELSE v

(* The row INSERT INTO password_entries stores; id, created_at and         *)
(* updated_at take their column defaults.                                  *)
sqlNewRow(auth, b, id) ==
    [id |-> id,
     url |-> Str(b, "url"),
     username |-> Str(b, "username"),
     owner |-> ownerOr(b, auth),
     tags |-> IF Has(b, "tags") THEN b.tags ELSE <<>>,
     note |-> toSql(Str(b, "note")),
     passwordEncrypted |-> Str(b, "passwordEncrypted"),
     faviconUrl |-> toSql(Str(b, "faviconUrl")),
     category |-> undefined,
     createdAt |-> now,
     updatedAt |-> now]

(* The entry object the sql POST handler answers with: the request's own   *)
(* values and the returned id and timestamps.                              *)
sqlNewEntry(auth, b, id) ==
    [sqlNewRow(auth, b, id) EXCEPT !.note = Str(b, "note"),
                                   !.faviconUrl = Str(b, "faviconUrl")]

(* A table without the foreign key *)
ownerKeyFailsNever(row) == FALSE

(* owner REFERENCES users(username) *)
ownerKeyFails(row) == ~userExists(row.owner)

(* A load that takes its catch branch: the file reads as [] *)
loadEntriesUnread(u) == <<>>

(* loadEntries: the user's vault file, created empty if absent *)
loadEntries(u) == ensureUserVault(vault, u)[u]

(* saveEntries: the whole file is rewritten *)
saveEntries(u, entries) == [ensureUserVault(vault, u) EXCEPT ![u] = entries]

(* entries.unshift(entry) *)
unshift(entries, e) == <<e>> \o entries

(* { ...e, ...updates, updatedAt: now }: every key of the payload wins *)
fileMerge(e, p) ==
    [id |-> IF Has(p, "id") THEN p.id ELSE e.id,
     url |-> IF Has(p, "url") THEN p.url ELSE e.url,
     username |-> IF Has(p, "username") THEN p.username ELSE e.username,
     owner |-> IF Has(p, "owner") THEN p.owner ELSE e.owner,
     tags |-> IF Has(p, "tags") THEN p.tags ELSE e.tags,
     note |-> IF Has(p, "note") THEN p.note ELSE e.note,
     passwordEncrypted |-> IF Has(p, "passwordEncrypted") THEN p.passwordEncrypted
                           ELSE e.passwordEncrypted,
     faviconUrl |-> IF Has(p, "faviconUrl") THEN p.faviconUrl ELSE e.faviconUrl,
     category |-> IF Has(p, "category") THEN p.category ELSE e.category,
     createdAt |-> IF Has(p, "createdAt") THEN p.createdAt ELSE e.createdAt,
     updatedAt |-> now]

(* entries.map(e => e.id === id ? merged : e) *)
fileUpdateMap(entries, id, p) ==
    [i \in 1..Len(entries) |->
        IF entries[i].id = id THEN fileMerge(entries[i], p) ELSE entries[i]]

(* UPDATE ... SET: only the truthy ones of the six columns, and updated_at *)
sqlMerge(e, p) ==
    [id |-> e.id,
     url |-> IF Truthy(Str(p, "url")) THEN p.url ELSE e.url,
     username |-> IF Truthy(Str(p, "username")) THEN p.username ELSE e.username,
     owner |-> e.owner,
     tags |-> IF Has(p, "tags") THEN p.tags ELSE e.tags,
     note |-> IF Truthy(Str(p, "note")) THEN p.note ELSE e.note,
     passwordEncrypted |-> IF Truthy(Str(p, "passwordEncrypted")) THEN p.passwordEncrypted
                           ELSE e.passwordEncrypted,
     faviconUrl |-> IF Truthy(Str(p, "faviconUrl")) THEN p.faviconUrl ELSE e.faviconUrl,
     category |-> e.category,
     createdAt |-> e.createdAt,
     updatedAt |-> now]

(* A match on the id alone *)
sqlMatchAnyOwner(id, auth) == {r \in rows : r.id = id}

(* WHERE id = $n AND owner = $m *)
sqlMatch(id, auth) == {r \in rows : r.id = id /\ r.owner = auth}

(* WHERE owner = $1 *)
rowsOf(auth) == {r \in rows : r.owner = auth}

(* A filter that keeps every entry *)
SelectOthersKeep(entries, id) == entries

(* entries.filter(e => e.id !== id) *)
SelectOthers(entries, id) == SelectSeq(entries, LAMBDA e : e.id # id)

(* The sequences that list the elements of a finite set once each *)
SeqsOf(S) ==
    {q \in [1..Cardinality(S) -> S] : \A i, j \in 1..Cardinality(S) : i # j => q[i] # q[j]}

orderedDesc(q) == \A i \in 1..(Len(q) - 1) : q[i].createdAt >= q[i + 1].createdAt

(* ORDER BY created_at DESC: rows with equal created_at come in any order *)
sqlListings(auth) == {q \in SeqsOf(rowsOf(auth)) : orderedDesc(q)}

(* An export that selects no row *)
sqlExportsNone(auth) == {<<>>}

(* The sql export has no ORDER BY *)
sqlExports(auth) == SeqsOf(rowsOf(auth))

SeqRange(q) == {q[i] : i \in 1..Len(q)}

(* entries.map(e => e.category).filter(Boolean), as a set *)
fileCategories(entries) == {e.category : e \in {x \in SeqRange(entries) : Truthy(x.category)}}

(* SELECT DISTINCT UNNEST(tags) ... WHERE owner = $1, then filter(Boolean) *)
categoriesIn(R) == {t \in UNION {SeqRange(r.tags) : r \in R} : Truthy(t)}

sqlCategories(auth) == categoriesIn(rowsOf(auth))

(* A strip that stops after the first entry it rewrote *)
fileStripFirst(entries, cat) ==
    [i \in 1..Len(entries) |->
        IF entries[i].category = cat /\ \A j \in 1..(i - 1) : entries[j].category # cat
        THEN [entries[i] EXCEPT !.category = undefined, !.updatedAt = now]
        ELSE entries[i]]

(* e.category === categoryToDelete ? { ...e, category: undefined, updatedAt } : e *)
fileStrip(entries, cat) ==
    [i \in 1..Len(entries) |->
        IF entries[i].category = cat
        THEN [entries[i] EXCEPT !.category = undefined, !.updatedAt = now]
        ELSE entries[i]]

(* array_remove(tags, $1) *)
arrayRemove(tags, cat) == SelectSeq(tags, LAMBDA t : t # cat)

(* SET tags = array_remove(tags, $1), updated_at = CURRENT_TIMESTAMP WHERE owner = $2 *)
sqlStrip(cat, auth) ==
    {IF r.owner = auth
     THEN [r EXCEPT !.tags = arrayRemove(r.tags, cat), !.updatedAt = now]
     ELSE r : r \in rows}

----------------------------------------------------------------------------
(* Handlers with a request body.  The file server calls getAuth when the   *)
(* request arrives and then awaits the body; the sql handler awaits the    *)
(* body first and calls getAuth afterwards.                                *)
Begin(c, op, tok, args) ==
    /\ ~Busy(c)
    /\ IF backend = "file"
       THEN /\ sessions' = sessionsAfterAuth(tok)
            /\ IF authOk(tok)
               THEN /\ inflight' = [inflight EXCEPT ![c] =
                          [op |-> op, pc |-> "body", token |-> tok,
                           auth |-> authName(tok), args |-> args]]
                    /\ UNCHANGED resp
               ELSE /\ resp' = Reply(op, c, 401, "Unauthorized",
                                     [token |-> tok, args |-> args], NoOut)
                    /\ UNCHANGED inflight
       ELSE /\ inflight' = [inflight EXCEPT ![c] =
                  [op |-> op, pc |-> "body", token |-> tok,
                   auth |-> NoUser, args |-> args]]
            /\ UNCHANGED <<sessions, resp>>
    /\ UNCHANGED <<backend, storage, now, users, vault, rows, nextToken, nextId, regOk, issued, creator, raced>>

ReqOf(r) == [token |-> r.token, args |-> r.args]

(* POST /api/entries *)
BeginAddEntry(c, tok, body) == Begin(c, "addEntry", tok, [body |-> body])

FileAddEntryBody(c) ==
    LET r == inflight[c]
        b == r.args.body
        entry == fileNewEntry(r.auth, b, nextId) IN
    /\ backend = "file"
    /\ r.op = "addEntry" /\ r.pc = "body"
    /\ missingFields(b) \/ nextId <= MaxEntries
    /\ inflight' = Done(c)
    /\ IF missingFields(b)
       THEN /\ resp' = Reply("addEntry", c, 400, "Missing fields", ReqOf(r), NoOut)
            /\ UNCHANGED <<vault, nextId, creator, raced>>
       ELSE /\ vault' = saveEntries(r.auth, unshift(loadEntries(r.auth), entry))
            /\ nextId' = nextId + 1
            /\ creator' = created(nextId, r.auth)
            /\ raced' = (raced \/ overlaps(c))
            /\ resp' = Reply("addEntry", c, 201, "", ReqOf(r), [entry |-> entry])
    /\ UNCHANGED <<backend, storage, now, users, rows, sessions, nextToken, regOk, issued>>

SqlAddEntryBody(c) ==
    LET r == inflight[c]
        b == r.args.body IN
    /\ backend = "sql"
    /\ r.op = "addEntry" /\ r.pc = "body"
    /\ ~authOk(r.token) \/ missingFields(b) \/ storageDown \/ nextId <= MaxEntries
    /\ inflight' = Done(c)
    /\ sessions' = sessionsAfterAuth(r.token)
    /\ IF ~authOk(r.token)
       THEN /\ resp' = Reply("addEntry", c, 401, "Unauthorized", ReqOf(r), NoOut)
            /\ UNCHANGED <<rows, nextId, creator>>
       ELSE IF missingFields(b)
       THEN /\ resp' = Reply("addEntry", c, 400, "Missing fields", ReqOf(r), NoOut)
            /\ UNCHANGED <<rows, nextId, creator>>
       ELSE IF storageDown
       THEN /\ resp' = Reply("addEntry", c, 500, StorageError, ReqOf(r), NoOut)
            /\ UNCHANGED <<rows, nextId, creator>>
       ELSE IF ownerKeyFails(sqlNewRow(authName(r.token), b, nextId))
       THEN /\ resp' = Reply("addEntry", c, 500, "Database error", ReqOf(r), NoOut)
            /\ UNCHANGED <<rows, nextId, creator>>
       ELSE /\ rows' = rows \cup {sqlNewRow(authName(r.token), b, nextId)}
            /\ nextId' = nextId + 1
            /\ creator' = created(nextId, authName(r.token))
            /\ resp' = Reply("addEntry", c, 201, "", ReqOf(r),
                             [entry |-> sqlNewEntry(authName(r.token), b, nextId)])
    /\ UNCHANGED <<backend, storage, now, users, vault, nextToken, regOk, issued, raced>>

(* PUT /api/entries/:id.  A body that is not JSON, or is empty, reads as   *)
(* null: args.isNull.                                                      *)
BeginUpdateEntry(c, tok, id, isNull, body) ==
    Begin(c, "updateEntry", tok, [id |-> id, isNull |-> isNull, body |-> body])

FileUpdateEntryBody(c) ==
    LET r == inflight[c]
        p == r.args.body
        entries == loadEntries(r.auth)
        next == fileUpdateMap(entries, r.args.id, p)
        hits == {i \in 1..Len(entries) : entries[i].id = r.args.id} IN
    /\ backend = "file"
    /\ r.op = "updateEntry" /\ r.pc = "body"
    /\ inflight' = Done(c)
    /\ vault' = saveEntries(r.auth, next)
    /\ resp' = IF hits # {}
               THEN Reply("updateEntry", c, 200, "", ReqOf(r),
                          [entry |-> next[CHOOSE i \in hits : \A j \in hits : j <= i]])
               ELSE Reply("updateEntry", c, 404, "Not found", ReqOf(r), NoOut)
    /\ raced' = (raced \/ (hits # {} /\ overlaps(c)))
    /\ UNCHANGED <<backend, storage, now, users, rows, sessions, nextToken, nextId, regOk, issued, creator>>

SqlUpdateEntryBody(c) ==
    LET r == inflight[c]
        p == r.args.body
        hit == sqlMatch(r.args.id, authName(r.token)) IN
    /\ backend = "sql"
    /\ r.op = "updateEntry" /\ r.pc = "body"
    /\ inflight' = Done(c)
    /\ sessions' = sessionsAfterAuth(r.token)
    /\ IF ~authOk(r.token)
       THEN /\ resp' = Reply("updateEntry", c, 401, "Unauthorized", ReqOf(r), NoOut)
            /\ UNCHANGED rows
       ELSE IF storageDown
       THEN /\ resp' = Reply("updateEntry", c, 500, StorageError, ReqOf(r), NoOut)
            /\ UNCHANGED rows
       ELSE IF r.args.isNull
       THEN /\ resp' = Reply("updateEntry", c, 500, "Database error", ReqOf(r), NoOut)
            /\ UNCHANGED rows
       ELSE IF hit = {}
       THEN /\ resp' = Reply("updateEntry", c, 404, "Not found", ReqOf(r), NoOut)
            /\ UNCHANGED rows
       ELSE \E e \in hit :
            /\ rows' = (rows \ hit) \cup {sqlMerge(x, p) : x \in hit}
            /\ resp' = Reply("updateEntry", c, 200, "", ReqOf(r), [entry |-> sqlMerge(e, p)])
    /\ UNCHANGED <<backend, storage, now, users, vault, nextToken, nextId, regOk, issued, creator, raced>>

(* POST /api/categories: validates the name and stores nothing *)
BeginDeclareCategory(c, tok, cat) == Begin(c, "declareCategory", tok, [category |-> cat])

(* A validation that accepts every name *)
invalidCategoryNever(cat) == FALSE

(* !category || typeof category !== 'string' || category.trim() === '' *)
invalidCategory(cat) == ~Truthy(cat) \/ cat = " "

DeclareCategoryBody(c) ==
    LET r == inflight[c]
        okAuth == backend = "file" \/ authOk(r.token) IN
    /\ r.op = "declareCategory" /\ r.pc = "body"
    /\ inflight' = Done(c)
    /\ sessions' = IF backend = "file" THEN sessions ELSE sessionsAfterAuth(r.token)
    /\ vault' = IF backend = "file" /\ ~invalidCategory(r.args.category)
                THEN ensureUserVault(vault, r.auth) ELSE vault
    /\ resp' = IF ~okAuth
               THEN Reply("declareCategory", c, 401, "Unauthorized", ReqOf(r), NoOut)
               ELSE IF invalidCategory(r.args.category)
               THEN Reply("declareCategory", c, 400, "Invalid category", ReqOf(r), NoOut)
               ELSE Reply("declareCategory", c, 201, "", ReqOf(r),
                          [category |-> r.args.category])
    /\ UNCHANGED <<backend, storage, now, users, rows, nextToken, nextId, regOk, issued, creator, raced>>

----------------------------------------------------------------------------
(* Handlers without a request body (GET, DELETE).  On the file backend     *)
(* they run without an await; on the sql backend getAuth and the one       *)
(* awaited query are taken as one step.                                    *)
Unauthorized(c, op, tok, args) ==
    /\ resp' = Reply(op, c, 401, "Unauthorized", [token |-> tok, args |-> args], NoOut)
    /\ UNCHANGED <<vault, rows>>

(* The pool check or the catch block of a sql handler answers 500. *)
Unavailable(c, op, tok, args, error) ==
    /\ resp' = Reply(op, c, 500, error, [token |-> tok, args |-> args], NoOut)
    /\ UNCHANGED <<vault, rows>>

(* GET /api/entries *)
ListEntries(c, tok) ==
    /\ ~Busy(c)
    /\ sessions' = sessionsAfterAuth(tok)
    /\ IF ~authOk(tok) THEN Unauthorized(c, "listEntries", tok, <<>>)
       ELSE IF storageDown THEN Unavailable(c, "listEntries", tok, <<>>, StorageError)
       ELSE IF backend = "file"
       THEN /\ vault' = ensureUserVault(vault, authName(tok))
            /\ resp' = Reply("listEntries", c, 200, "", [token |-> tok, args |-> <<>>],
                             [entries |-> loadEntries(authName(tok))])
            /\ UNCHANGED rows
       ELSE \E q \in sqlListings(authName(tok)) :
            /\ resp' = Reply("listEntries", c, 200, "", [token |-> tok, args |-> <<>>],
                             [entries |-> q])
            /\ UNCHANGED <<vault, rows>>
    /\ UNCHANGED <<backend, storage, now, users, inflight, nextToken, nextId, regOk, issued, creator, raced>>

(* GET /api/export.  The sql handler has no pool check: with pool = null  *)
(* pool.query throws inside the try block and the catch answers.           *)
Export(c, tok) ==
    /\ ~Busy(c)
    /\ sessions' = sessionsAfterAuth(tok)
    /\ IF ~authOk(tok) THEN Unauthorized(c, "export", tok, <<>>)
       ELSE IF storageDown THEN Unavailable(c, "export", tok, <<>>, "Database error")
       ELSE IF backend = "file"
       THEN /\ vault' = ensureUserVault(vault, authName(tok))
            /\ resp' = Reply("export", c, 200, "", [token |-> tok, args |-> <<>>],
                             [username |-> authName(tok),
                              entries |-> loadEntries(authName(tok))])
            /\ UNCHANGED rows
       ELSE \E q \in sqlExports(authName(tok)) :
            /\ resp' = Reply("export", c, 200, "", [token |-> tok, args |-> <<>>],
                             [username |-> authName(tok), entries |-> q])
            /\ UNCHANGED <<vault, rows>>
    /\ UNCHANGED <<backend, storage, now, users, inflight, nextToken, nextId, regOk, issued, creator, raced>>

(* GET /api/categories *)
ListCategories(c, tok) ==
    /\ ~Busy(c)
    /\ sessions' = sessionsAfterAuth(tok)
    /\ IF ~authOk(tok) THEN Unauthorized(c, "listCategories", tok, <<>>)
       ELSE IF storageDown THEN Unavailable(c, "listCategories", tok, <<>>, StorageError)
       ELSE IF backend = "file"
       THEN /\ vault' = ensureUserVault(vault, authName(tok))
            /\ resp' = Reply("listCategories", c, 200, "", [token |-> tok, args |-> <<>>],
                             [categories |-> fileCategories(loadEntries(authName(tok)))])
            /\ UNCHANGED rows
       ELSE /\ resp' = Reply("listCategories", c, 200, "", [token |-> tok, args |-> <<>>],
                             [categories |-> sqlCategories(authName(tok))])
            /\ UNCHANGED <<vault, rows>>
    /\ UNCHANGED <<backend, storage, now, users, inflight, nextToken, nextId, regOk, issued, creator, raced>>

(* DELETE /api/entries/:id *)
DeleteEntry(c, tok, id) ==
    /\ ~Busy(c)
    /\ sessions' = sessionsAfterAuth(tok)
    /\ IF ~authOk(tok) THEN Unauthorized(c, "deleteEntry", tok, [id |-> id])
       ELSE IF storageDown THEN Unavailable(c, "deleteEntry", tok, [id |-> id], StorageError)
       ELSE IF backend = "file"
       THEN LET entries == loadEntries(authName(tok))
                next == SelectOthers(entries, id) IN
            /\ vault' = saveEntries(authName(tok), next)
            /\ resp' = IF Len(next) # Len(entries)
                       THEN Reply("deleteEntry", c, 200, "", [token |-> tok, args |-> [id |-> id]], OkOut)
                       ELSE Reply("deleteEntry", c, 404, "Not found", [token |-> tok, args |-> [id |-> id]], NoOut)
            /\ UNCHANGED rows
       ELSE /\ rows' = rows \ sqlMatch(id, authName(tok))
            /\ resp' = IF sqlMatch(id, authName(tok)) # {}
                       THEN Reply("deleteEntry", c, 200, "", [token |-> tok, args |-> [id |-> id]], OkOut)
                       ELSE Reply("deleteEntry", c, 404, "Not found", [token |-> tok, args |-> [id |-> id]], NoOut)
            /\ UNCHANGED vault
    /\ UNCHANGED <<backend, storage, now, users, inflight, nextToken, nextId, regOk, issued, creator, raced>>

(* DELETE /api/categories/:name *)
DeleteCategory(c, tok, cat) ==
    /\ ~Busy(c)
    /\ sessions' = sessionsAfterAuth(tok)
    /\ IF ~authOk(tok) THEN Unauthorized(c, "deleteCategory", tok, [category |-> cat])
       ELSE IF storageDown
       THEN Unavailable(c, "deleteCategory", tok, [category |-> cat], StorageError)
       ELSE /\ resp' = Reply("deleteCategory", c, 200, "",
                             [token |-> tok, args |-> [category |-> cat]], OkOut)
            /\ IF backend = "file"
               THEN /\ vault' = saveEntries(authName(tok),
                                            fileStrip(loadEntries(authName(tok)), cat))
                    /\ UNCHANGED rows
               ELSE /\ rows' = sqlStrip(cat, authName(tok))
                    /\ UNCHANGED vault
    /\ UNCHANGED <<backend, storage, now, users, inflight, nextToken, nextId, regOk, issued, creator, raced>>

----------------------------------------------------------------------------
(* Registration under concurrency: two clients, two salts *)
RegNames == {alice, bob}
RegPasswords == {"secret1"}
Salts == {"s1", "s2"}

NextReg ==
    \/ \E c \in Clients, u \in RegNames, p \in RegPasswords : BeginRegister(c, u, p)
    \/ \E c \in Clients, s \in Salts : FileRegisterBody(c, s)
    \/ \E c \in Clients, s \in Salts : SqlRegisterSelect(c, s)
    \/ \E c \in Clients : SqlRegisterInsert(c)

SpecReg == Init /\ [][NextReg]_vars

(* Registration and login: passwords right, wrong and missing *)
LoginPasswords == {"secret1", "hunter22", undefined}

NextLogin ==
    \/ \E c \in Clients, p \in {"secret1", "hunter22"} : BeginRegister(c, alice, p)
    \/ \E c \in Clients : FileRegisterBody(c, "s1")
    \/ \E c \in Clients : SqlRegisterSelect(c, "s1")
    \/ \E c \in Clients : SqlRegisterInsert(c)
    \/ \E c \in Clients, u \in {alice, bob}, p \in LoginPasswords : BeginLogin(c, u, p)
    \/ \E c \in Clients : LoginBody(c)
    \/ \E tok \in 0..MaxTokens : Me("c1", tok)

SpecLogin == Init /\ [][NextLogin]_vars

(* Inputs of the vault specifications *)
BaseBody == [url |-> "u1", username |-> "a", passwordEncrypted |-> "ct1"]
WorkBody == [url |-> "u1", username |-> "a", passwordEncrypted |-> "ct1", tags |-> <<"work">>]
BobBody == [url |-> "u1", username |-> "a", passwordEncrypted |-> "ct1", owner |-> bob]

(* Registration and login of the vault specifications: one client, one password *)
Enrol(names) ==
    \/ \E u \in names : BeginRegister("c1", u, "secret1")
    \/ FileRegisterBody("c1", "s1")
    \/ SqlRegisterSelect("c1", "s1")
    \/ SqlRegisterInsert("c1")
    \/ \E u \in names : BeginLogin("c1", u, "secret1")
    \/ LoginBody("c1")

(* Ownership: alice and bob, each reading and writing, an owner in the body *)
NextOwn ==
    \/ Enrol({alice, bob})
    \/ \E tok \in 1..MaxTokens, b \in {WorkBody, BobBody} : BeginAddEntry("c1", tok, b)
    \/ FileAddEntryBody("c1")
    \/ SqlAddEntryBody("c1")
    \/ \E tok \in 1..MaxTokens, id \in 1..MaxEntries :
          BeginUpdateEntry("c1", tok, id, FALSE, [note |-> "n"])
    \/ FileUpdateEntryBody("c1")
    \/ SqlUpdateEntryBody("c1")
    \/ \E tok \in 1..MaxTokens : ListEntries("c1", tok)
    \/ \E tok \in 1..MaxTokens : Export("c1", tok)
    \/ \E tok \in 1..MaxTokens : ListCategories("c1", tok)
    \/ \E tok \in 1..MaxTokens, id \in 1..MaxEntries : DeleteEntry("c1", tok, id)
    \/ \E tok \in 1..MaxTokens : DeleteCategory("c1", tok, "work")

SpecOwn == Init /\ [][NextOwn]_vars

(* Ordering on the file backend: one user, the clock, payloads with and    *)
(* without createdAt                                                       *)
OrderBodies == {[note |-> "n"], [createdAt |-> MaxTime + 1]}

NextOrder ==
    \/ BeginRegister("c1", alice, "secret1")
    \/ FileRegisterBody("c1", "s1")
    \/ BeginLogin("c1", alice, "secret1")
    \/ LoginBody("c1")
    \/ BeginAddEntry("c1", 1, WorkBody)
    \/ FileAddEntryBody("c1")
    \/ \E id \in 1..MaxEntries, b \in OrderBodies : BeginUpdateEntry("c1", 1, id, FALSE, b)
    \/ FileUpdateEntryBody("c1")
    \/ ListEntries("c1", 1)
    \/ \E id \in 1..MaxEntries : DeleteEntry("c1", 1, id)
    \/ DeleteCategory("c1", 1, "work")
    \/ \E t \in 1..MaxTime : Tick(t)

InitFile == Init /\ backend = "file"

SpecOrder == InitFile /\ [][NextOrder]_vars

(* Categories: tags and category keys on entries, stripped and listed *)
CatBodies == {[tags |-> <<"home">>], [tags |-> <<"work", "home">>], [category |-> "work"]}

NextCat ==
    \/ Enrol({alice})
    \/ \E b \in {BaseBody, WorkBody} : BeginAddEntry("c1", 1, b)
    \/ FileAddEntryBody("c1")
    \/ SqlAddEntryBody("c1")
    \/ \E id \in 1..MaxEntries, b \in CatBodies : BeginUpdateEntry("c1", 1, id, FALSE, b)
    \/ FileUpdateEntryBody("c1")
    \/ SqlUpdateEntryBody("c1")
    \/ ListCategories("c1", 1)
    \/ \E cat \in {"work", "home"} : DeleteCategory("c1", 1, cat)

SpecCat == Init /\ [][NextCat]_vars

(* Concurrent writes on the file backend: two clients of one user, one     *)
(* session, writes in flight together                                      *)
RaceBodies == {[note |-> "n"], [tags |-> <<"home">>]}

NextRace ==
    \/ BeginRegister("c1", alice, "secret1")
    \/ FileRegisterBody("c1", "s1")
    \/ nextToken = 1 /\ BeginLogin("c1", alice, "secret1")
    \/ LoginBody("c1")
    \/ \E c \in Clients : BeginAddEntry(c, 1, WorkBody)
    \/ \E c \in Clients : FileAddEntryBody(c)
    \/ \E c \in Clients, id \in 1..MaxEntries, b \in RaceBodies :
          BeginUpdateEntry(c, 1, id, FALSE, b)
    \/ \E c \in Clients : FileUpdateEntryBody(c)
    \/ \E c \in Clients, id \in 1..MaxEntries : DeleteEntry(c, 1, id)

SpecRace == InitFile /\ [][NextRace]_vars

(* Category deletion and the clock: entries with and without the tag *)
NextFrame ==
    \/ Enrol({alice})
    \/ \E b \in {BaseBody, WorkBody} : BeginAddEntry("c1", 1, b)
    \/ FileAddEntryBody("c1")
    \/ SqlAddEntryBody("c1")
    \/ \E cat \in {"work", "home"} : DeleteCategory("c1", 1, cat)
    \/ \E t \in 1..MaxTime : Tick(t)

SpecFrame == Init /\ [][NextFrame]_vars

(* Updates: payloads with a value, with an empty string, with two fields  *)
(* and with no field                                                       *)
MergeBodies == {[note |-> "n"], [note |-> ""], <<>>, [url |-> "u2", tags |-> <<"home">>]}

NextMerge ==
    \/ Enrol({alice})
    \/ BeginAddEntry("c1", 1, WorkBody)
    \/ FileAddEntryBody("c1")
    \/ SqlAddEntryBody("c1")
    \/ \E id \in 1..MaxEntries, b \in MergeBodies : BeginUpdateEntry("c1", 1, id, FALSE, b)
    \/ FileUpdateEntryBody("c1")
    \/ SqlUpdateEntryBody("c1")
    \/ \E t \in 1..MaxTime : Tick(t)

SpecMerge == Init /\ [][NextMerge]_vars

(* Updates and deletions of ids that are and are not there, with a JSON    *)
(* object as the body and with no body                                     *)
NextMissing ==
    \/ Enrol({alice})
    \/ BeginAddEntry("c1", 1, WorkBody)
    \/ FileAddEntryBody("c1")
    \/ SqlAddEntryBody("c1")
    \/ \E id \in 1..MaxEntries : BeginUpdateEntry("c1", 1, id, FALSE, [note |-> "n"])
    \/ \E id \in 1..MaxEntries : BeginUpdateEntry("c1", 1, id, TRUE, <<>>)
    \/ FileUpdateEntryBody("c1")
    \/ SqlUpdateEntryBody("c1")
    \/ \E id \in 1..MaxEntries : DeleteEntry("c1", 1, id)
    \/ \E t \in 1..MaxTime : Tick(t)

SpecMissing == Init /\ [][NextMissing]_vars

(* Probing: alice holds token 1 and adds entries, bob holds token 2; each *)
(* updates and deletes the ids                                             *)
NextProbe ==
    \/ \E u \in {alice, bob} : BeginRegister("c1", u, "secret1")
    \/ FileRegisterBody("c1", "s1")
    \/ SqlRegisterSelect("c1", "s1")
    \/ SqlRegisterInsert("c1")
    \/ nextToken = 1 /\ BeginLogin("c1", alice, "secret1")
    \/ nextToken = 2 /\ BeginLogin("c1", bob, "secret1")
    \/ LoginBody("c1")
    \/ BeginAddEntry("c1", 1, WorkBody)
    \/ FileAddEntryBody("c1")
    \/ SqlAddEntryBody("c1")
    \/ \E tok \in 1..2, id \in 1..MaxEntries :
          BeginUpdateEntry("c1", tok, id, FALSE, [note |-> "n"])
    \/ \E tok \in 1..2, id \in 1..MaxEntries :
          BeginUpdateEntry("c1", tok, id, TRUE, <<>>)
    \/ FileUpdateEntryBody("c1")
    \/ SqlUpdateEntryBody("c1")
    \/ \E tok \in 1..2, id \in 1..MaxEntries : DeleteEntry("c1", tok, id)

SpecProbe == Init /\ [][NextProbe]_vars

(* Requests without a session: token 0 is a request without a bearer      *)
(* token, token 1 the one session, which expires, token 2 is never issued  *)
UnauthTokens == {0, 1, 2}
UnauthTimes == {TOKEN_TTL_MS + 1}
UnauthBodies == {WorkBody, <<>>}
UnauthNames == {"work", ""}

NextUnauth ==
    \/ BeginRegister("c1", alice, "secret1")
    \/ FileRegisterBody("c1", "s1")
    \/ SqlRegisterSelect("c1", "s1")
    \/ SqlRegisterInsert("c1")
    \/ nextToken = 1 /\ BeginLogin("c1", alice, "secret1")
    \/ LoginBody("c1")
    \/ \E tok \in UnauthTokens, b \in UnauthBodies : BeginAddEntry("c1", tok, b)
    \/ FileAddEntryBody("c1")
    \/ SqlAddEntryBody("c1")
    \/ \E tok \in UnauthTokens, isNull \in BOOLEAN :
          BeginUpdateEntry("c1", tok, 1, isNull, <<>>)
    \/ FileUpdateEntryBody("c1")
    \/ SqlUpdateEntryBody("c1")
    \/ \E tok \in UnauthTokens, cat \in UnauthNames : BeginDeclareCategory("c1", tok, cat)
    \/ DeclareCategoryBody("c1")
    \/ \E tok \in UnauthTokens : ListEntries("c1", tok)
    \/ \E tok \in UnauthTokens : Export("c1", tok)
    \/ \E tok \in UnauthTokens : ListCategories("c1", tok)
    \/ \E tok \in UnauthTokens : DeleteEntry("c1", tok, 1)
    \/ \E tok \in UnauthTokens : DeleteCategory("c1", tok, "work")
    \/ \E t \in UnauthTimes : Tick(t)

SpecUnauth == Init /\ [][NextUnauth]_vars

(* Additions: complete bodies, with and without an owner, a body with a   *)
(* field missing and one with an empty field                               *)
AddBodies ==
    {WorkBody, BobBody, [url |-> "u1"],
     [url |-> "", username |-> "a", passwordEncrypted |-> "ct1"]}

NextAdd ==
    \/ Enrol({alice})
    \/ \E b \in AddBodies : BeginAddEntry("c1", 1, b)
    \/ FileAddEntryBody("c1")
    \/ SqlAddEntryBody("c1")
    \/ ListEntries("c1", 1)
    \/ \E t \in 1..MaxTime : Tick(t)

SpecAdd == Init /\ [][NextAdd]_vars

(* Registration inputs: usernames valid, too short, with a character      *)
(* outside the class and too long; passwords valid, too short and missing  *)
ValidNames == {alice, shortName, badName, longName}
ValidPasswords == {"secret1", "abc", undefined}

NextValid ==
    \/ \E c \in Clients, u \in ValidNames, p \in ValidPasswords : BeginRegister(c, u, p)
    \/ \E c \in Clients : FileRegisterBody(c, "s1")
    \/ \E c \in Clients : SqlRegisterSelect(c, "s1")
    \/ \E c \in Clients : SqlRegisterInsert(c)

SpecValid == Init /\ [][NextValid]_vars

(* The sql backend with its storage missing or failing: every operation  *)
(* of one user                                                             *)
NextStorage ==
    \/ BeginRegister("c1", alice, "secret1")
    \/ SqlRegisterSelect("c1", "s1")
    \/ SqlRegisterInsert("c1")
    \/ nextToken = 1 /\ BeginLogin("c1", alice, "secret1")
    \/ LoginBody("c1")
    \/ BeginAddEntry("c1", 1, WorkBody)
    \/ SqlAddEntryBody("c1")
    \/ BeginUpdateEntry("c1", 1, 1, FALSE, [note |-> "n"])
    \/ SqlUpdateEntryBody("c1")
    \/ ListEntries("c1", 1)
    \/ Export("c1", 1)
    \/ ListCategories("c1", 1)
    \/ DeleteEntry("c1", 1, 1)
    \/ DeleteCategory("c1", 1, "work")
    \/ Outage
    \/ Recover

SpecStorage == InitStorage /\ [][NextStorage]_vars

(* The scenario: one client sends its requests in order, each after the   *)
(* answer to the one before; the clock may move between any two steps.     *)
NextScenario ==
    \/ resp.op = "none" /\ BeginRegister("c1", alice, "secret1")
    \/ FileRegisterBody("c1", "s1")
    \/ SqlRegisterSelect("c1", "s1")
    \/ SqlRegisterInsert("c1")
    \/ resp.op = "register" /\ BeginLogin("c1", alice, "wrong")
    \/ resp.op = "login" /\ resp.status = 401 /\ BeginLogin("c1", alice, "secret1")
    \/ LoginBody("c1")
    \/ resp.op = "login" /\ resp.status = 200 /\ BeginAddEntry("c1", 1, BaseBody)
    \/ FileAddEntryBody("c1")
    \/ SqlAddEntryBody("c1")
    \/ resp.op = "addEntry" /\ ListEntries("c1", 1)
    \/ resp.op = "listEntries" /\ resp.out.entries # <<>>
          /\ BeginUpdateEntry("c1", 1, 1, FALSE, [note |-> "n"])
    \/ FileUpdateEntryBody("c1")
    \/ SqlUpdateEntryBody("c1")
    \/ resp.op = "updateEntry" /\ DeleteEntry("c1", 1, 1)
    \/ resp.op = "deleteEntry" /\ ListEntries("c1", 1)
    \/ \E t \in 1..MaxTime : Tick(t)

SpecScenario == Init /\ [][NextScenario]_vars

(* Sessions and the clock: logins early, checks around the expiry *)
SessTimes == (1..MaxTime) \cup {TOKEN_TTL_MS + k : k \in (0 - 1)..MaxTime}

NextSess ==
    \/ BeginRegister("c1", alice, "secret1")
    \/ FileRegisterBody("c1", "s1")
    \/ SqlRegisterSelect("c1", "s1")
    \/ SqlRegisterInsert("c1")
    \/ \E p \in {"secret1", "hunter22"} : BeginLogin("c1", alice, p)
    \/ LoginBody("c1")
    \/ \E tok \in 0..MaxTokens : Me("c2", tok)
    \/ \E t \in SessTimes : Tick(t)

SpecSess == Init /\ [][NextSess]_vars

(* Deletions: alice holds token 1, bob token 2; both add entries, update   *)
(* them with a note or with an id in the payload, and delete them          *)
DeleteBodies == {[note |-> "n"], [id |-> 1]}

NextDelete ==
    \/ \E u \in {alice, bob} : BeginRegister("c1", u, "secret1")
    \/ FileRegisterBody("c1", "s1")
    \/ SqlRegisterSelect("c1", "s1")
    \/ SqlRegisterInsert("c1")
    \/ nextToken = 1 /\ BeginLogin("c1", alice, "secret1")
    \/ nextToken = 2 /\ BeginLogin("c1", bob, "secret1")
    \/ LoginBody("c1")
    \/ \E tok \in 1..2 : BeginAddEntry("c1", tok, WorkBody)
    \/ FileAddEntryBody("c1")
    \/ SqlAddEntryBody("c1")
    \/ \E tok \in 1..2, id \in 1..MaxEntries, b \in DeleteBodies :
          BeginUpdateEntry("c1", tok, id, FALSE, b)
    \/ FileUpdateEntryBody("c1")
    \/ SqlUpdateEntryBody("c1")
    \/ \E tok \in 1..2, id \in 1..MaxEntries : DeleteEntry("c1", tok, id)

SpecDelete == Init /\ [][NextDelete]_vars

(* Updates that name the fields set at creation: payloads with an id, an   *)
(* owner, a createdAt, and one with a note only                            *)
ImmutableBodies == {[id |-> 2], [owner |-> bob], [createdAt |-> MaxTime + 1], [note |-> "n"]}

NextImmutable ==
    \/ Enrol({alice})
    \/ BeginAddEntry("c1", 1, WorkBody)
    \/ FileAddEntryBody("c1")
    \/ SqlAddEntryBody("c1")
    \/ \E id \in 1..MaxEntries, b \in ImmutableBodies : BeginUpdateEntry("c1", 1, id, FALSE, b)
    \/ FileUpdateEntryBody("c1")
    \/ SqlUpdateEntryBody("c1")
    \/ DeleteCategory("c1", 1, "work")

SpecImmutable == Init /\ [][NextImmutable]_vars

(* User records over time: two clients register alice with two passwords   *)
(* and two salts, alice logs in and works on her vault, the clock moves once *)
NextWriteOnce ==
    \/ \E c \in Clients, p \in {"secret1", "hunter22"} : BeginRegister(c, alice, p)
    \/ \E c \in Clients, s \in Salts : FileRegisterBody(c, s)
    \/ \E c \in Clients, s \in Salts : SqlRegisterSelect(c, s)
    \/ \E c \in Clients : SqlRegisterInsert(c)
    \/ nextToken = 1 /\ \E p \in {"secret1", "hunter22"} : BeginLogin("c1", alice, p)
    \/ LoginBody("c1")
    \/ BeginAddEntry("c1", 1, WorkBody)
    \/ FileAddEntryBody("c1")
    \/ SqlAddEntryBody("c1")
    \/ BeginUpdateEntry("c1", 1, 1, FALSE, [note |-> "n"])
    \/ FileUpdateEntryBody("c1")
    \/ SqlUpdateEntryBody("c1")
    \/ DeleteEntry("c1", 1, 1)
    \/ DeleteCategory("c1", 1, "work")
    \/ Tick(1)

SpecWriteOnce == Init /\ [][NextWriteOnce]_vars

(* Sessions side by side: alice and bob register and log in, with right   *)
(* and wrong passwords, at different clock readings; tokens are resolved,  *)
(* entries are added and deleted, and the clock passes the first expiry    *)
IndepTimes == {1, TOKEN_TTL_MS + 1}

NextIndep ==
    \/ \E u \in {alice, bob} : BeginRegister("c1", u, "secret1")
    \/ FileRegisterBody("c1", "s1")
    \/ SqlRegisterSelect("c1", "s1")
    \/ SqlRegisterInsert("c1")
    \/ \E p \in {"secret1", "hunter22"} : BeginLogin("c1", alice, p)
    \/ BeginLogin("c1", bob, "secret1")
    \/ LoginBody("c1")
    \/ \E tok \in 1..2 : Me("c1", tok)
    \/ BeginAddEntry("c1", 1, WorkBody)
    \/ FileAddEntryBody("c1")
    \/ SqlAddEntryBody("c1")
    \/ DeleteEntry("c1", 1, 1)
    \/ \E t \in IndepTimes : Tick(t)

SpecIndep == Init /\ [][NextIndep]_vars

(* Declaring categories: names that are a word, empty, blank and missing, *)
(* for a user whose entries carry tags and a category                      *)
DeclareNames == {"work", "home", "", " ", undefined}

NextDeclare ==
    \/ Enrol({alice})
    \/ BeginAddEntry("c1", 1, WorkBody)
    \/ FileAddEntryBody("c1")
    \/ SqlAddEntryBody("c1")
    \/ BeginUpdateEntry("c1", 1, 1, FALSE, [category |-> "work"])
    \/ FileUpdateEntryBody("c1")
    \/ SqlUpdateEntryBody("c1")
    \/ \E cat \in DeclareNames : BeginDeclareCategory("c1", 1, cat)
    \/ DeclareCategoryBody("c1")
    \/ ListCategories("c1", 1)

SpecDeclare == Init /\ [][NextDeclare]_vars

(* Category deletion among other requests: alice on two clients; one adds  *)
(* entries, sets their category and deletes the category while the other   *)
(* adds and lists; the clock moves once and the sql storage may fail        *)
NextAtomic ==
    \/ BeginRegister("c1", alice, "secret1")
    \/ FileRegisterBody("c1", "s1")
    \/ SqlRegisterSelect("c1", "s1")
    \/ SqlRegisterInsert("c1")
    \/ nextToken = 1 /\ BeginLogin("c1", alice, "secret1")
    \/ LoginBody("c1")
    \/ \E c \in Clients : BeginAddEntry(c, 1, WorkBody)
    \/ \E c \in Clients : FileAddEntryBody(c)
    \/ \E c \in Clients : SqlAddEntryBody(c)
    \/ \E id \in 1..MaxEntries : BeginUpdateEntry("c1", 1, id, FALSE, [category |-> "work"])
    \/ FileUpdateEntryBody("c1")
    \/ SqlUpdateEntryBody("c1")
    \/ DeleteCategory("c1", 1, "work")
    \/ ListEntries("c2", 1)
    \/ ListCategories("c2", 1)
    \/ Tick(1)
    \/ Outage
    \/ Recover

SpecAtomic == Init /\ [][NextAtomic]_vars

(* Termination: requests with a body on two clients, the sql storage       *)
(* failing and recovering.  A request is accepted only while a token or an *)
(* id is left for it, so that the bounds never hold a handler back.        *)
NextFair ==
    \/ \E c \in Clients : BeginRegister(c, alice, "secret1")
    \/ \E c \in Clients : FileRegisterBody(c, "s1")
    \/ \E c \in Clients : SqlRegisterSelect(c, "s1")
    \/ \E c \in Clients : SqlRegisterInsert(c)
    \/ nextToken <= MaxTokens /\ BeginLogin("c1", alice, "secret1")
    \/ LoginBody("c1")
    \/ nextId <= MaxEntries /\ BeginAddEntry("c1", 1, WorkBody)
    \/ FileAddEntryBody("c1")
    \/ SqlAddEntryBody("c1")
    \/ \E isNull \in BOOLEAN : BeginUpdateEntry("c2", 1, 1, isNull, <<>>)
    \/ FileUpdateEntryBody("c2")
    \/ SqlUpdateEntryBody("c2")
    \/ Outage
    \/ Recover

(* The continuation of client c's handler: the 'end' event of the request  *)
(* body, or the settlement of the awaited query                            *)
Answer(c) ==
    \/ FileRegisterBody(c, "s1")
    \/ SqlRegisterSelect(c, "s1")
    \/ SqlRegisterInsert(c)
    \/ LoginBody(c)
    \/ FileAddEntryBody(c)
    \/ SqlAddEntryBody(c)
    \/ FileUpdateEntryBody(c)
    \/ SqlUpdateEntryBody(c)

(* Every request body ends and every query is settled *)
SpecFair == Init /\ [][NextFair]_vars /\ \A c \in Clients : WF_vars(Answer(c))

(* Logins that succeed and fail: alice registered, bob not; passwords     *)
(* right, wrong and missing; the sql storage failing and recovering; and   *)
(* requests that are no login                                              *)
NextIssue ==
    \/ BeginRegister("c1", alice, "secret1")
    \/ FileRegisterBody("c1", "s1")
    \/ SqlRegisterSelect("c1", "s1")
    \/ SqlRegisterInsert("c1")
    \/ \E u \in {alice, bob}, p \in LoginPasswords : BeginLogin("c1", u, p)
    \/ LoginBody("c1")
    \/ \E tok \in 0..MaxTokens : Me("c1", tok)
    \/ BeginAddEntry("c1", 1, WorkBody)
    \/ FileAddEntryBody("c1")
    \/ SqlAddEntryBody("c1")
    \/ DeleteEntry("c1", 1, 1)
    \/ Outage
    \/ Recover

SpecIssue == Init /\ [][NextIssue]_vars

(* Export and listing side by side: alice adds, updates and deletes        *)
(* entries, lists them and exports them                                    *)
NextExport ==
    \/ Enrol({alice})
    \/ \E tok \in 1..MaxTokens : BeginAddEntry("c1", tok, WorkBody)
    \/ FileAddEntryBody("c1")
    \/ SqlAddEntryBody("c1")
    \/ \E id \in 1..MaxEntries : BeginUpdateEntry("c1", 1, id, FALSE, [note |-> "n"])
    \/ FileUpdateEntryBody("c1")
    \/ SqlUpdateEntryBody("c1")
    \/ \E id \in 1..MaxEntries : DeleteEntry("c1", 1, id)
    \/ \E tok \in 1..MaxTokens : ListEntries("c1", tok)
    \/ \E tok \in 1..MaxTokens : Export("c1", tok)

SpecExport == Init /\ [][NextExport]_vars

----------------------------------------------------------------------------
(* Claims about registration, login and sessions *)

(* C2: for every username at most one register request is answered 201,   *)
(* and the user store never holds more than one record for it.            *)
C2_UsernameUnique ==
    \A u \in RegNames :
        /\ RegCount(u) <= 1
        /\ Cardinality(UserRows(u)) <= 1

(* C2 witness: alice is registered and a later register request for alice *)
(* has been turned down.                                                  *)
C2_Witness ==
    /\ RegCount(alice) = 1
    /\ resp.op = "register"
    /\ resp.req.username = alice
    /\ resp.status \in {409, 500}

(* C3: a register request for a valid username that completes is answered *)
(* 201 when the username is still free and 409 'User exists' when another  *)
(* request has taken it - no loser gets any other failure.                 *)
C3_LoserGetsUserExists ==
    [][\A c \in Clients :
        (/\ Responds(c)
         /\ inflight[c].op = "register"
         /\ isValidUser(inflight[c].username)
         /\ isValidPassword(inflight[c].password))
        => /\ resp'.op = "register" /\ resp'.client = c
           /\ IF userExists(inflight[c].username)
              THEN resp'.status = 409 /\ resp'.error = "User exists"
              ELSE resp'.status = 201]_vars

(* C4: a token issued at time t resolves at every check before t + 24h    *)
(* and is rejected at every check at or after t + 24h.                    *)
C4_ExpiryBoundary ==
    [][\A c \in Clients, tok \in 1..MaxTokens :
        (Me(c, tok) /\ tok \in DOMAIN issued)
        => IF now < issued[tok].at + TOKEN_TTL_MS
           THEN resp'.status = 200 /\ resp'.out.username = issued[tok].username
           ELSE resp'.status = 401]_vars

(* C5: once register(u, p) has succeeded, every login(u, p) is answered   *)
(* 200 and the token it returns resolves to u.                            *)
C5_PasswordRoundTrip ==
    [][\A c \in Clients :
        (/\ LoginBody(c)
         /\ RegCount(inflight[c].username) > 0
         /\ inflight[c].password = regOk[inflight[c].username][1])
        => /\ resp'.op = "login" /\ resp'.client = c
           /\ resp'.status = 200
           /\ resp'.out.username = inflight[c].username
           /\ resp'.out.token \in DOMAIN sessions'
           /\ sessions'[resp'.out.token].username = inflight[c].username
           /\ ~(sessions'[resp'.out.token].expires < now')]_vars

(* C5 witness: a second successful login of alice *)
C5_Witness ==
    /\ resp.op = "login"
    /\ resp.status = 200
    /\ resp.req.username = alice
    /\ resp.out.token = 2
    /\ RegCount(alice) = 1

(* C6: a login with a wrong password for a registered user and a login    *)
(* for an unregistered user are both answered 401 'Invalid credentials'.  *)
C6_LoginFailuresAlike ==
    [][\A c \in Clients :
        (/\ LoginBody(c)
         /\ \/ RegCount(inflight[c].username) = 0
            \/ inflight[c].password # regOk[inflight[c].username][1])
        => /\ resp'.op = "login" /\ resp'.client = c
           /\ resp'.status = 401
           /\ resp'.error = "Invalid credentials"]_vars

----------------------------------------------------------------------------
(* Claims about the vault *)

(* The entries a user's requests read: the user's vault file, or the rows  *)
(* of the user.                                                            *)
storedOf(u) ==
    IF backend = "file"
    THEN (IF u \in DOMAIN vault THEN SeqRange(vault[u]) ELSE {})
    ELSE rowsOf(u)

allStored ==
    IF backend = "file"
    THEN UNION {SeqRange(vault[u]) : u \in DOMAIN vault}
    ELSE rows

createdByOthers(u) == {e \in allStored : creator[e.id] # u}

(* The user a request in flight acts as *)
actor(r) == IF backend = "file" THEN r.auth ELSE authName(r.token)

actsAs(r) == backend = "file" \/ authOk(r.token)

(* C1: an entry created by a request authenticated as A is never returned *)
(* by listEntries, listCategories or export of another user B, no write   *)
(* authenticated as B changes or removes it, and no request of A changes  *)
(* what B's listing holds.                                                *)
C1_OwnershipIsolation ==
    [][/\ \A c \in Clients, tok \in 1..MaxTokens :
            authOk(tok) =>
              \A B \in {authName(tok)} :
                /\ ListEntries(c, tok) =>
                      \A e \in SeqRange(resp'.out.entries) : creator[e.id] = B
                /\ Export(c, tok) =>
                      \A e \in SeqRange(resp'.out.entries) : creator[e.id] = B
                /\ ListCategories(c, tok) =>
                      \A cat \in resp'.out.categories :
                         \E e \in allStored :
                            /\ creator[e.id] = B
                            /\ (cat = e.category \/ cat \in SeqRange(e.tags))
                /\ ((\E id \in 1..MaxEntries : DeleteEntry(c, tok, id))
                       \/ DeleteCategory(c, tok, "work")) =>
                      /\ createdByOthers(B)' = createdByOthers(B)
                      /\ \A u \in {alice, bob} \ {B} : storedOf(u)' = storedOf(u)
       /\ \A c \in Clients :
            (/\ Responds(c)
             /\ inflight[c].op \in {"addEntry", "updateEntry"}
             /\ actsAs(inflight[c])) =>
                \A B \in {actor(inflight[c])} :
                   /\ createdByOthers(B)' = createdByOthers(B)
                   /\ \A u \in {alice, bob} \ {B} : storedOf(u)' = storedOf(u)]_vars

(* C7: on the file backend a write that completes leaves every other      *)
(* entry of the owner's vault as the other writers left it, and applies   *)
(* its own change - also when another write of the owner was in flight.   *)
C7_NoLostUpdate ==
    [][/\ \A c \in Clients :
            (/\ backend = "file"
             /\ Responds(c)
             /\ inflight[c].op \in {"addEntry", "updateEntry"}
             /\ resp'.status \in {200, 201}) =>
                LET r == inflight[c]
                    before == vault[r.auth]
                    after == vault'[r.auth] IN
                IF r.op = "addEntry"
                THEN /\ Len(after) = Len(before) + 1
                     /\ Tail(after) = before
                     /\ after[1].id = nextId
                     /\ after[1].url = r.args.body.url
                ELSE /\ Len(after) = Len(before)
                     /\ \A i \in 1..Len(before) :
                          IF before[i].id = r.args.id
                          THEN \A f \in DOMAIN r.args.body : after[i][f] = r.args.body[f]
                          ELSE after[i] = before[i]
       /\ \A c \in Clients, id \in 1..MaxEntries :
            (backend = "file" /\ DeleteEntry(c, 1, id) /\ authOk(1)) =>
                /\ \A e \in SeqRange(vault[authName(1)]) :
                      e.id # id => e \in SeqRange(vault'[authName(1)])
                /\ \A e \in SeqRange(vault'[authName(1)]) :
                      e \in SeqRange(vault[authName(1)]) /\ e.id # id]_vars

(* C7 witness: writes of alice to two entries were in flight together and *)
(* both are answered; entry 1 carries the note and entry 2 the tags.      *)
C7_Witness ==
    /\ backend = "file"
    /\ raced
    /\ \A c \in Clients : ~Busy(c)
    /\ alice \in DOMAIN vault
    /\ \E e \in SeqRange(vault[alice]) : e.id = 1 /\ e.note = "n"
    /\ \E e \in SeqRange(vault[alice]) : e.id = 2 /\ e.tags = <<"home">>

(* C8: listEntries returns the entries by createdAt descending, and an    *)
(* entry added after another one is listed before it.                     *)
C8_ListingOrder ==
    [][\A c \in Clients, tok \in 1..MaxTokens :
         (ListEntries(c, tok) /\ authOk(tok)) =>
            /\ orderedDesc(resp'.out.entries)
            /\ \A i, j \in 1..Len(resp'.out.entries) :
                  i < j => resp'.out.entries[i].id > resp'.out.entries[j].id]_vars

(* The distinct non-empty tags of a user's current entries *)
tagsOf(u) == {t \in UNION {SeqRange(e.tags) : e \in storedOf(u)} : t # ""}

(* C9: listCategories returns exactly the distinct non-empty tags of the  *)
(* owner's current entries.                                               *)
C9_CategoriesAreTags ==
    [][\A c \in Clients, tok \in 1..MaxTokens :
         (ListCategories(c, tok) /\ authOk(tok)) =>
            /\ resp'.status = 200
            /\ resp'.out.categories = tagsOf(authName(tok))]_vars

(* What listCategories answers for a user in the current state *)
categoriesOf(u) ==
    IF backend = "file"
    THEN (IF u \in DOMAIN vault THEN fileCategories(vault[u]) ELSE {})
    ELSE sqlCategories(u)

(* C10: after deleteCategory(owner, c) is answered ok, no entry of the    *)
(* owner has c in its tags and listCategories(owner) does not hold c.     *)
C10_CategoryGone ==
    [][\A c \in Clients, tok \in 1..MaxTokens, cat \in {"work", "home"} :
         (DeleteCategory(c, tok, cat) /\ authOk(tok)) =>
            /\ resp'.status = 200
            /\ \A e \in storedOf(authName(tok))' : cat \notin SeqRange(e.tags)
            /\ cat \notin categoriesOf(authName(tok))']_vars

(* C11: deleteCategory(owner, c) changes only the tags and updatedAt of    *)
(* the owner's entries that carried c: an entry without c keeps every      *)
(* field, updatedAt included, an entry with c keeps its other tags and     *)
(* every field but tags and updatedAt, and when no entry carries c the     *)
(* stored state is unchanged.                                              *)
C11_DeleteCategoryFrame ==
    [][\A c \in Clients, tok \in 1..MaxTokens, cat \in {"work", "home"} :
         (DeleteCategory(c, tok, cat) /\ authOk(tok)) =>
            \A B \in {authName(tok)} :
               /\ users' = users
               /\ \A e \in storedOf(B) :
                     IF cat \in SeqRange(e.tags)
                     THEN \E x \in storedOf(B)' :
                            /\ x = [e EXCEPT !.tags = x.tags, !.updatedAt = x.updatedAt]
                            /\ SelectSeq(x.tags, LAMBDA g : g # cat)
                                  = SelectSeq(e.tags, LAMBDA g : g # cat)
                     ELSE e \in storedOf(B)'
               /\ Cardinality(storedOf(B)') = Cardinality(storedOf(B))
               /\ (\A e \in storedOf(B) : cat \notin SeqRange(e.tags))
                     => vault' = vault /\ rows' = rows]_vars

(* The fields updateEntry may set *)
MutableFields == {"url", "username", "passwordEncrypted", "faviconUrl", "note", "tags"}

(* C12: updateEntry on an entry of the caller sets each mutable field the  *)
(* payload holds to the payload's value, whatever it is, leaves the other  *)
(* fields at their previous value, refreshes updatedAt also for a payload  *)
(* without fields, stores the merged entry and returns it.                 *)
C12_PartialUpdateMerge ==
    [][\A c \in Clients :
         (/\ Responds(c)
          /\ inflight[c].op = "updateEntry"
          /\ actsAs(inflight[c])
          /\ ~inflight[c].args.isNull) =>
            \A B \in {actor(inflight[c])} :
              \A e \in storedOf(B) :
                 e.id = inflight[c].args.id =>
                    /\ resp'.status = 200
                    /\ \A f \in MutableFields :
                          resp'.out.entry[f] =
                             IF f \in DOMAIN inflight[c].args.body
                             THEN inflight[c].args.body[f] ELSE e[f]
                    /\ resp'.out.entry.id = e.id
                    /\ resp'.out.entry.createdAt = e.createdAt
                    /\ resp'.out.entry.updatedAt = now
                    /\ resp'.out.entry \in storedOf(B)']_vars

(* C13: updateEntry or deleteEntry with an id for which the caller owns   *)
(* no entry is answered 404 'Not found' and leaves every stored entry of   *)
(* every owner as it was.                                                  *)
C13_NotFoundNoChange ==
    [][/\ \A c \in Clients :
            (/\ Responds(c)
             /\ inflight[c].op = "updateEntry"
             /\ actsAs(inflight[c])
             /\ \A e \in storedOf(actor(inflight[c])) : e.id # inflight[c].args.id) =>
                /\ resp'.status = 404
                /\ resp'.error = "Not found"
                /\ vault' = vault /\ rows' = rows
       /\ \A c \in Clients, tok \in 1..MaxTokens, id \in 1..MaxEntries :
            (/\ DeleteEntry(c, tok, id)
             /\ authOk(tok)
             /\ \A e \in storedOf(authName(tok)) : e.id # id) =>
                /\ resp'.status = 404
                /\ resp'.error = "Not found"
                /\ vault' = vault /\ rows' = rows]_vars

(* What a response shows of the outcome *)
visible(r) == [status |-> r.status, error |-> r.error, out |-> r.out]

(* The answer to an update or deletion that names an id held by nobody *)
C14_AbsentAnswer(op, isNull) ==
    IF backend = "sql" /\ op = "updateEntry" /\ isNull
    THEN [status |-> 500, error |-> "Database error", out |-> NoOut]
    ELSE [status |-> 404, error |-> "Not found", out |-> NoOut]

(* C14: an updateEntry or deleteEntry of B that names an id B does not     *)
(* hold gets the same response whether another owner holds that id or      *)
(* nobody does.                                                            *)
C14_NotFoundCollapse ==
    [][/\ \A c \in Clients :
            (/\ Responds(c)
             /\ inflight[c].op = "updateEntry"
             /\ actsAs(inflight[c])
             /\ \A e \in storedOf(actor(inflight[c])) : e.id # inflight[c].args.id) =>
                visible(resp') = C14_AbsentAnswer("updateEntry", inflight[c].args.isNull)
       /\ \A c \in Clients, tok \in 1..2, id \in 1..MaxEntries :
            (/\ DeleteEntry(c, tok, id)
             /\ authOk(tok)
             /\ \A e \in storedOf(authName(tok)) : e.id # id) =>
                visible(resp') = C14_AbsentAnswer("deleteEntry", FALSE)]_vars

(* C14 witness: bob's deletion of an id that alice holds was answered 404, *)
(* and alice still holds the entry.                                        *)
C14_Witness ==
    /\ resp.op = "deleteEntry"
    /\ resp.status = 404
    /\ resp.req.token \in DOMAIN issued
    /\ issued[resp.req.token].username = bob
    /\ \E e \in storedOf(alice) : e.id = resp.req.args.id /\ creator[e.id] = alice

(* C15: the two backends answer alike.  Checked where the file backend    *)
(* answers: listCategories returns what the sql query returns for the same *)
(* entries, and updateEntry returns, in the fields a payload may set, what *)
(* the sql UPDATE returns for the same entry and payload.                  *)
C15_BackendEquivalence ==
    [][/\ \A c \in Clients, tok \in 1..MaxTokens :
            (backend = "file" /\ ListCategories(c, tok) /\ authOk(tok)) =>
                resp'.out.categories = categoriesIn(storedOf(authName(tok)))
       /\ \A c \in Clients :
            (/\ backend = "file"
             /\ Responds(c)
             /\ inflight[c].op = "updateEntry"
             /\ ~inflight[c].args.isNull) =>
                \A e \in storedOf(inflight[c].auth) :
                   e.id = inflight[c].args.id =>
                      /\ resp'.status = 200
                      /\ \A f \in MutableFields :
                            resp'.out.entry[f] = sqlMerge(e, inflight[c].args.body)[f]]_vars

(* A bearer token that is missing, was never issued, or was issued more   *)
(* than 24 hours ago                                                       *)
C16_BadToken(tok) ==
    \/ tok = 0
    \/ tok \notin DOMAIN issued
    \/ now > issued[tok].at + TOKEN_TTL_MS

(* The answer 401 'Unauthorized', with users and entries left as they were *)
C16_Refused ==
    /\ resp'.status = 401
    /\ resp'.error = "Unauthorized"
    /\ users' = users /\ vault' = vault /\ rows' = rows

C17_Missing(b) ==
    \E f \in {"url", "username", "passwordEncrypted"} : f \notin DOMAIN b \/ b[f] = ""

(* C17: addEntry with url, username or passwordEncrypted missing or empty *)
(* is answered 400 'Missing fields' and stores nothing; otherwise it       *)
(* stores exactly one new entry, with createdAt = updatedAt, and returns   *)
(* it.                                                                     *)
C17_AddEntryValidation ==
    [][\A c \in Clients :
         (/\ Responds(c)
          /\ inflight[c].op = "addEntry"
          /\ actsAs(inflight[c])) =>
            IF C17_Missing(inflight[c].args.body)
            THEN /\ resp'.status = 400
                 /\ resp'.error = "Missing fields"
                 /\ vault' = vault /\ rows' = rows
            ELSE /\ resp'.status = 201
                 /\ \E x \in allStored' :
                       /\ x \notin allStored
                       /\ allStored' = allStored \cup {x}
                       /\ x.createdAt = x.updatedAt
                       /\ x.id = resp'.out.entry.id
                       /\ \A f \in {"url", "username", "passwordEncrypted"} :
                             /\ x[f] = inflight[c].args.body[f]
                             /\ resp'.out.entry[f] = x[f]]_vars

(* A username outside 3-32 characters of the class, or a password that   *)
(* is missing or shorter than 6 characters                                 *)
C18_Invalid(u, p) ==
    \/ Len(u) < 3
    \/ Len(u) > 32
    \/ \E i \in 1..Len(u) : u[i] \notin UserChars
    \/ p = undefined
    \/ Len(p) < 6

(* C18: register with an invalid username or password is answered 400,    *)
(* whether or not the username is taken, and creates no user record and no *)
(* vault.                                                                  *)
C18_RegisterValidation ==
    [][\A c \in Clients :
         (/\ Responds(c)
          /\ inflight[c].op = "register"
          /\ C18_Invalid(inflight[c].username, inflight[c].password)) =>
            /\ resp'.op = "register" /\ resp'.client = c
            /\ resp'.status = 400
            /\ resp'.error = "Invalid username or password"
            /\ users' = users
            /\ vault' = vault]_vars

(* C18 witness: alice is registered and a register request for alice with  *)
(* a password of three characters was answered 400.                        *)
C18_Witness ==
    /\ userExists(alice)
    /\ resp.op = "register"
    /\ resp.status = 400
    /\ resp.req.username = alice
    /\ resp.req.password = "abc"

(* The answer 500, with users, entries and sessions left as they were *)
C19_Failed ==
    /\ resp'.status = 500
    /\ users' = users /\ rows' = rows /\ vault' = vault
    /\ sessions' = sessions /\ nextToken' = nextToken

(* C19: on the sql backend, while the pool is missing or queries fail,    *)
(* every operation that reaches storage (a valid register, a login, an     *)
(* authorized and valid vault operation) is answered 500, issues no        *)
(* session and changes no stored state, and a request in flight can always *)
(* be answered.                                                            *)
C19_StorageUnavailable ==
    [][(backend = "sql" /\ storage # "ok") =>
         /\ \A c \in Clients :
               (Responds(c) /\ inflight[c].op \in {"register", "login"}) => C19_Failed
         /\ \A c \in Clients :
               (/\ Responds(c)
                /\ inflight[c].op \in {"addEntry", "updateEntry"}
                /\ authOk(inflight[c].token)) => C19_Failed
         /\ \A c \in Clients :
               (/\ authOk(1)
                /\ \/ ListEntries(c, 1) \/ Export(c, 1) \/ ListCategories(c, 1)
                   \/ DeleteEntry(c, 1, 1) \/ DeleteCategory(c, 1, "work")) => C19_Failed
         /\ \A c \in Clients :
               Busy(c) => ENABLED (NextStorage /\ Responds(c))]_vars

(* C19 witness: queries fail, alice's deletion of her entry was answered  *)
(* 500 and the entry is still stored.                                      *)
C19_Witness ==
    /\ backend = "sql"
    /\ storage = "failing"
    /\ resp.op = "deleteEntry"
    /\ resp.status = 500
    /\ \E e \in rowsOf(alice) : e.id = resp.req.args.id

(* The answers of the scenario, but for the updatedAt of the update: the  *)
(* answer just sent is the one the scenario names for its request.         *)
C20_Answers ==
    resp' # resp =>
       /\ resp'.op = "register" => resp'.status = 201
       /\ (resp'.op = "login" /\ resp'.req.password = "wrong") =>
             resp'.status = 401 /\ resp'.error = "Invalid credentials"
       /\ (resp'.op = "login" /\ resp'.req.password = "secret1") =>
             /\ resp'.status = 200
             /\ resp'.out.token \in DOMAIN sessions'
             /\ sessions'[resp'.out.token].username = alice
             /\ ~(sessions'[resp'.out.token].expires < now')
       /\ resp'.op = "addEntry" =>
             /\ resp'.status = 201
             /\ resp'.out.entry.id \in DOMAIN creator'
             /\ resp'.out.entry.id \notin DOMAIN creator
       /\ (resp'.op = "listEntries" /\ resp.op = "addEntry") =>
             /\ resp'.status = 200
             /\ Len(resp'.out.entries) = 1
             /\ resp'.out.entries[1].id = resp.out.entry.id
             /\ \A f \in DOMAIN BaseBody : resp'.out.entries[1][f] = BaseBody[f]
       /\ resp'.op = "updateEntry" =>
             /\ resp'.status = 200
             /\ resp'.out.entry.note = "n"
       /\ resp'.op = "deleteEntry" => resp'.status = 200
       /\ (resp'.op = "listEntries" /\ resp.op = "deleteEntry") =>
             resp'.status = 200 /\ resp'.out.entries = <<>>

heldBy(u) ==
    IF backend = "file"
    THEN (IF u \in DOMAIN vault THEN Len(vault[u]) ELSE 0)
    ELSE Cardinality(rowsOf(u))

(* C21: deleteEntry(owner, id) on an entry the caller holds is answered    *)
(* 200 and removes exactly that one entry: the caller holds one entry      *)
(* less, every other entry of the caller and every entry of every other    *)
(* owner is still stored with all its fields, and users are unchanged.     *)
C21_DeleteEntryEffect ==
    [][\A c \in Clients, tok \in 1..2, id \in 1..MaxEntries :
         (/\ DeleteEntry(c, tok, id)
          /\ authOk(tok)
          /\ \E e \in storedOf(authName(tok)) : e.id = id) =>
            \A B \in {authName(tok)} :
               /\ resp'.status = 200
               /\ heldBy(B)' = heldBy(B) - 1
               /\ \A e \in storedOf(B)' : e \in storedOf(B)
               /\ Cardinality(storedOf(B) \ storedOf(B)') <= 1
               /\ \A e \in storedOf(B) \ storedOf(B)' : e.id = id
               /\ \A u \in {alice, bob} \ {B} : storedOf(u)' = storedOf(u)
               /\ users' = users]_vars

(* C22: every entry stored by addEntry has its owner field equal to the    *)
(* username of the session that authenticated the request, whatever the    *)
(* request body holds, and so has the entry the answer returns.            *)
C22_OwnerIsCreator ==
    [][\A c \in Clients :
         (/\ Responds(c)
          /\ inflight[c].op = "addEntry"
          /\ actsAs(inflight[c])
          /\ resp'.status = 201) =>
            \A B \in {actor(inflight[c])} :
               /\ resp'.out.entry.owner = B
               /\ \A e \in allStored' : e.id = nextId => e.owner = B]_vars

(* id, owner and createdAt of every stored entry are the same before and   *)
(* after the step: entry by entry of each vault file, row by row of the    *)
(* table.                                                                  *)
C23_Kept ==
    IF backend = "file"
    THEN /\ DOMAIN vault \subseteq DOMAIN vault'
         /\ \A u \in DOMAIN vault :
               /\ Len(vault'[u]) = Len(vault[u])
               /\ \A i \in 1..Len(vault[u]) :
                     /\ vault'[u][i].id = vault[u][i].id
                     /\ vault'[u][i].owner = vault[u][i].owner
                     /\ vault'[u][i].createdAt = vault[u][i].createdAt
    ELSE /\ Cardinality(rows') = Cardinality(rows)
         /\ \A r \in rows : \E x \in rows' :
               x.id = r.id /\ x.owner = r.owner /\ x.createdAt = r.createdAt

(* C23: no updateEntry payload and no deleteCategory call changes the id,  *)
(* the owner or the createdAt of a stored entry.                           *)
C23_ImmutableFields ==
    [][/\ \A c \in Clients :
            (Responds(c) /\ inflight[c].op = "updateEntry") => C23_Kept
       /\ \A c \in Clients : DeleteCategory(c, 1, "work") => C23_Kept]_vars

(* C24: no two stored entries, of the same owner or of different owners,   *)
(* share an id.                                                            *)
C24_EntryIdUnique ==
    IF backend = "file"
    THEN \A u, v \in DOMAIN vault :
            \A i \in 1..Len(vault[u]), j \in 1..Len(vault[v]) :
               (u # v \/ i # j) => vault[u][i].id # vault[v][j].id
    ELSE \A r, x \in rows : r.id = x.id => r = x

(* C25: a valid register request that finds its username registered is     *)
(* answered 409 'User exists', and in every step every user record stays   *)
(* as it is - salt, hash, iterations and createdAt - with no second record *)
(* for its username.                                                       *)
C25_UserWriteOnce ==
    [][/\ \A c \in Clients :
            (/\ Responds(c)
             /\ inflight[c].op = "register"
             /\ inflight[c].pc = "body"
             /\ isValidUser(inflight[c].username)
             /\ isValidPassword(inflight[c].password)
             /\ userExists(inflight[c].username)) =>
                /\ resp'.op = "register" /\ resp'.client = c
                /\ resp'.status = 409
                /\ resp'.error = "User exists"
                /\ users' = users
       /\ \A r \in users :
            /\ r \in users'
            /\ \A x \in users' : x.username = r.username => x = r]_vars

(* C25 witness: alice registered with 'secret1' at an earlier clock        *)
(* reading and has stored an entry; a register request for alice with      *)
(* another password was answered 409 and her record is the one written     *)
(* at her registration.                                                    *)
C25_Witness ==
    /\ resp.op = "register"
    /\ resp.status = 409
    /\ resp.req.username = alice
    /\ resp.req.password = "hunter22"
    /\ allStored # {}
    /\ \E r \in users :
          /\ r.username = alice
          /\ r.createdAt < now
          /\ r.hash = hashPassword("secret1", r.salt, r.iterations)

(* C26: resolving a token that is in the session map and expired (its      *)
(* expiry is not after the clock) answers none and removes exactly that    *)
(* token; resolving a missing, unknown or unexpired token leaves the       *)
(* session map, every stored expiry included, as it was.                   *)
C26_LazyEviction ==
    [][\A c \in Clients, tok \in 0..MaxTokens :
         Me(c, tok) =>
            IF tok \in DOMAIN sessions /\ ~(sessions[tok].expires > now)
            THEN /\ resp'.status = 401
                 /\ DOMAIN sessions' = DOMAIN sessions \ {tok}
                 /\ \A t \in DOMAIN sessions' : sessions'[t] = sessions[t]
            ELSE /\ sessions' = sessions
                 /\ resp'.status = IF tok \in DOMAIN sessions THEN 200 ELSE 401]_vars

(* C27: a token issued to user u resolves to u at every clock reading      *)
(* before its own expiry, whatever has happened since it was issued:       *)
(* logins that succeeded or failed, registrations, vault mutations, the    *)
(* expiry and eviction of other tokens.                                    *)
C27_NoRevocation ==
    \A tok \in DOMAIN issued :
        now < issued[tok].at + TOKEN_TTL_MS =>
           /\ authOk(tok)
           /\ authName(tok) = issued[tok].username

(* C27 witness: token 1 has expired and was evicted, an entry is stored,   *)
(* and token 2, issued later, has just been resolved to its user.          *)
C27_Witness ==
    /\ 1 \in DOMAIN issued
    /\ 1 \notin DOMAIN sessions
    /\ 2 \in DOMAIN issued
    /\ now < issued[2].at + TOKEN_TTL_MS
    /\ allStored # {}
    /\ resp.op = "me"
    /\ resp.status = 200
    /\ resp.req.token = 2
    /\ resp.out.username = issued[2].username

(* A name that is a string with a character other than white space *)
C28_Named(cat) == cat # undefined /\ cat # "" /\ cat # " "

(* C28: an authenticated declareCategory(name) is answered ok for a name   *)
(* that is a non-empty, not whitespace-only string and 'Invalid category'  *)
(* otherwise, and in both cases leaves users, entries, sessions and what   *)
(* listCategories answers as they were.                                    *)
C28_DeclareCategoryPure ==
    [][\A c \in Clients :
         (/\ Responds(c)
          /\ inflight[c].op = "declareCategory"
          /\ actsAs(inflight[c])) =>
            \A B \in {actor(inflight[c])} :
               /\ resp'.op = "declareCategory" /\ resp'.client = c
               /\ IF C28_Named(inflight[c].args.category)
                  THEN resp'.status = 201 /\ resp'.out.category = inflight[c].args.category
                  ELSE resp'.status = 400 /\ resp'.error = "Invalid category"
               /\ users' = users
               /\ vault' = vault /\ rows' = rows
               /\ sessions' = sessions
               /\ categoriesOf(B)' = categoriesOf(B)]_vars

(* C28 witness: alice holds an entry, 'home' is not among her categories,  *)
(* and her declareCategory('home') was answered 201 - it still is not      *)
(* among them.                                                             *)
C28_Witness ==
    /\ resp.op = "declareCategory"
    /\ resp.status = 201
    /\ resp.req.args.category = "home"
    /\ storedOf(alice) # {}
    /\ "home" \notin categoriesOf(alice)

(* C29: on the sql backend every stored entry's owner is the username of   *)
(* a stored user record, and an addEntry whose entry would name an owner   *)
(* that is no user fails and stores nothing.                               *)
C29_ReferentialIntegrity ==
    [][backend = "sql" =>
         /\ \A r \in rows' : \E u \in users' : u.username = r.owner
         /\ \A c \in Clients :
               (/\ Responds(c)
                /\ inflight[c].op = "addEntry"
                /\ authOk(inflight[c].token)
                /\ ~C17_Missing(inflight[c].args.body)
                /\ "owner" \in DOMAIN inflight[c].args.body
                /\ \A u \in users : u.username # inflight[c].args.body.owner) =>
                   /\ resp'.status >= 400
                   /\ rows' = rows]_vars

(* C29 witness: alice holds an entry, bob is no user, and alice's          *)
(* addEntry with owner bob was answered 500.                               *)
C29_Witness ==
    /\ backend = "sql"
    /\ resp.op = "addEntry"
    /\ resp.status = 500
    /\ resp.req.args.body = BobBody
    /\ ~userExists(bob)
    /\ rowsOf(alice) # {}

(* An entry carries category c among its tags, or as its category *)
C30_Carries(e, c, rep) ==
    IF rep = "tags" THEN c \in SeqRange(e.tags) ELSE e.category = c

(* C30: deleteCategory(owner, c) is all-or-nothing.  In one step, and      *)
(* whatever other requests of the owner are in flight, c is taken from     *)
(* all of the owner's entries that carried it (among their tags, as their  *)
(* category) or from none of them; a deletion that fails changes nothing;  *)
(* and a listing shows the stored entries, so never a partial deletion.    *)
C30_CategoryDeleteAtomic ==
    [][/\ \A c \in Clients :
            (DeleteCategory(c, 1, "work") /\ authOk(1)) =>
               \A B \in {authName(1)} :
                  /\ \A rep \in {"tags", "category"} :
                        LET had == {e \in storedOf(B) : C30_Carries(e, "work", rep)}
                            kept == {e \in had : \E x \in storedOf(B)' :
                                        x.id = e.id /\ C30_Carries(x, "work", rep)}
                        IN  kept = {} \/ kept = had
                  /\ resp'.status \in {200, 500}
                  /\ resp'.status = 500 => vault' = vault /\ rows' = rows
       /\ \A c \in Clients :
            (ListEntries(c, 1) /\ authOk(1) /\ resp'.status = 200) =>
               SeqRange(resp'.out.entries) = storedOf(authName(1))]_vars

(* C30 witness: while an addEntry of alice was in flight on the other      *)
(* client, her deleteCategory('work') was answered 200 and took 'work'     *)
(* from both of her entries.                                               *)
C30_Witness ==
    /\ resp.op = "deleteCategory"
    /\ resp.status = 200
    /\ inflight["c2"].op = "addEntry"
    /\ Cardinality(storedOf(alice)) = 2
    /\ \A e \in storedOf(alice) :
          IF backend = "file"
          THEN e.category = undefined /\ e.updatedAt > e.createdAt
          ELSE e.tags = <<>>

(* C31: when every request body ends and every storage call is settled,   *)
(* each accepted request is eventually answered, and the step that ends a  *)
(* handler sends one response, to its client and for its operation.        *)
C31_EveryRequestTerminates ==
    /\ \A c \in Clients : Busy(c) ~> ~Busy(c)
    /\ [][\A c \in Clients :
            /\ Responds(c) =>
                  /\ resp'.client = c
                  /\ resp'.op = inflight[c].op
                  /\ resp'.status \in {200, 201, 400, 401, 404, 409, 500}
            /\ (Busy(c) /\ ~Responds(c) /\ inflight'[c] # inflight[c]) =>
                  /\ resp' = resp
                  /\ inflight[c].op = "register"
                  /\ inflight'[c].pc = "insert"]_vars

(* C31 witness: with the sql storage failing, the update of the second     *)
(* client was answered while a request of the first was still in flight.   *)
C31_Witness ==
    /\ storage = "failing"
    /\ resp.op = "updateEntry"
    /\ resp.client = "c2"
    /\ resp.status = 500
    /\ ~Busy("c2")
    /\ Busy("c1")

(* C32: every stored entry has createdAt <= updatedAt, and a successful    *)
(* updateEntry or deleteCategory leaves no entry with an updatedAt earlier *)
(* than it had.                                                            *)
C32_TimestampOrder ==
    [][/\ \A e \in allStored' : e.createdAt <= e.updatedAt
       /\ \A c \in Clients :
            (\/ Responds(c) /\ inflight[c].op = "updateEntry" /\ resp'.status = 200
             \/ DeleteCategory(c, 1, "work") /\ resp'.status = 200) =>
                \A e \in allStored : \A x \in allStored' :
                   x.id = e.id => x.updatedAt >= e.updatedAt]_vars

(* C33: every entry of the session map names a username that has a user    *)
(* record: a token enters the map only in a login whose password verifies  *)
(* against a stored record of that username, and no user record is ever    *)
(* removed.                                                                *)
C33_SessionsNameUsers ==
    [][/\ \A t \in DOMAIN sessions' : \E r \in users' : r.username = sessions'[t].username
       /\ \A t \in DOMAIN sessions' \ DOMAIN sessions :
            \E c \in Clients :
               /\ Responds(c)
               /\ inflight[c].op = "login"
               /\ sessions'[t].username = inflight[c].username
               /\ \E r \in users :
                     /\ r.username = inflight[c].username
                     /\ r.hash = hashPassword(inflight[c].password, r.salt, r.iterations)
       /\ \A r \in users : r \in users']_vars

(* C33 witness: alice holds a session, and a login for bob, who has no     *)
(* user record, was just answered 401.                                     *)
C33_Witness ==
    /\ resp.op = "login"
    /\ resp.status = 401
    /\ resp.req.username = bob
    /\ ~userExists(bob)
    /\ 1 \in DOMAIN sessions
    /\ sessions[1].username = alice

(* C34: a login answered 401 or 500, and every login with a password that  *)
(* is not the registered one, adds no token and changes no user record and *)
(* no entry; a login answered 200 adds exactly one token and leaves the    *)
(* other sessions as they were; no other step adds a token.                *)
C34_FailedLoginIssuesNothing ==
    [][/\ \A c \in Clients :
            (Responds(c) /\ inflight[c].op = "login") =>
               /\ resp'.status \in {200, 401, 500}
               /\ IF resp'.status = 200
                  THEN /\ resp'.out.token \notin DOMAIN sessions
                       /\ DOMAIN sessions' = DOMAIN sessions \cup {resp'.out.token}
                       /\ \A t \in DOMAIN sessions : sessions'[t] = sessions[t]
                  ELSE /\ sessions' = sessions
                       /\ users' = users
                       /\ vault' = vault /\ rows' = rows
               /\ (\/ RegCount(inflight[c].username) = 0
                   \/ inflight[c].password # regOk[inflight[c].username][1])
                     => resp'.status # 200 /\ sessions' = sessions
       /\ (\A c \in Clients : ~(Responds(c) /\ inflight[c].op = "login"))
             => DOMAIN sessions' \subseteq DOMAIN sessions]_vars

(* C34 witness: alice holds one session; with the sql storage failing her  *)
(* next login with the right password was answered 500 and she still       *)
(* holds one.                                                              *)
C34_Witness ==
    /\ storage = "failing"
    /\ resp.op = "login"
    /\ resp.status = 500
    /\ resp.req.username = alice
    /\ resp.req.password = "secret1"
    /\ DOMAIN sessions = {1}
    /\ nextToken = 2

(* C35: for an authenticated identity export is answered 200 with the      *)
(* username of the session and exactly the entries stored for it - the     *)
(* same set the listing just before it returned, when the last answer was  *)
(* that listing - and changes no stored state.                             *)
C35_ExportMatchesVault ==
    [][\A c \in Clients, tok \in 1..MaxTokens :
         (Export(c, tok) /\ authOk(tok)) =>
            /\ resp'.status = 200
            /\ resp'.out.username = issued[tok].username
            /\ SeqRange(resp'.out.entries) = storedOf(issued[tok].username)
            /\ Len(resp'.out.entries) = heldBy(issued[tok].username)
            /\ (resp.op = "listEntries" /\ resp.status = 200 /\ resp.req.token = tok) =>
                  /\ SeqRange(resp'.out.entries) = SeqRange(resp.out.entries)
                  /\ Len(resp'.out.entries) = Len(resp.out.entries)
            /\ users' = users /\ vault' = vault /\ rows' = rows
            /\ sessions' = sessions]_vars

(* C35 witness: alice holds two entries and her export returned both,      *)
(* under her name.                                                         *)
C35_Witness ==
    /\ resp.op = "export"
    /\ resp.status = 200
    /\ resp.out.username = alice
    /\ Len(resp.out.entries) = 2
    /\ SeqRange(resp.out.entries) = storedOf(alice)
    /\ \E e \in storedOf(alice) : e.note = "n"

====
